---- MODULE Spec2Model ----
(***************************************************************************)
(* Model of the meeting-summariser summarization pipeline                  *)
(* (src-tauri/src/llm/summary.rs and its collaborators).                   *)
(*                                                                         *)
(* Option<T> values are modelled as sequences of length 0 (None) or 1      *)
(* (Some(x)), so that None and Some(x) are always comparable.              *)
(***************************************************************************)
EXTENDS Integers, Sequences, FiniteSets, TLC

(***************************************************************************)
(* Bounds of the model.                                                    *)
(***************************************************************************)
\* Longest list of per-chunk summaries given to the two KeyFacts folds.
MaxFoldChunks == 2
\* Longest attendee list a single chunk summary carries.
MaxAttendees == 2

(***************************************************************************)
(* Data model (llm/models.rs).                                             *)
(***************************************************************************)
None == <<>>

Some(x) == <<x>>

IsSome(o) == Len(o) = 1

Unwrap(o) == o[1]

\* Attendee { id: usize, name: String }
Attendee(id, name) == [id |-> id, name |-> name]

\* KeyFact { responisible_for_moderation, responisible_for_protocol,
\*           responisible_for_timekeeping, attendees }
KeyFact(moderation, protocol, timekeeping, attendees) ==
    [responisible_for_moderation |-> moderation,
     responisible_for_protocol |-> protocol,
     responisible_for_timekeeping |-> timekeeping,
     attendees |-> attendees]

\* FirstSummaryFormat { key_facts, topics, todos }
FirstSummaryFormat(key_facts, topics, todos) ==
    [key_facts |-> key_facts, topics |-> topics, todos |-> todos]

\* The KeyFact summarize_chunks starts from, and the one inside the
\* FirstSummaryFormat combine_structured_first_summaries starts from.
EmptyKeyFact == KeyFact(None, None, None, None)

EmptyFirstSummary == FirstSummaryFormat(EmptyKeyFact, <<>>, None)

(***************************************************************************)
(* update_key_facts (summary.rs 276-306).                                  *)
(***************************************************************************)
\* Vec::contains on the id list.
Contains(ids, id) == \E i \in 1..Len(ids) : ids[i] = id

\* existing_ids: the ids of a list of attendees, in order.
IdsOf(attendees) == [i \in 1..Len(attendees) |-> attendees[i].id]

\* The loop of lines 298-303: existing_ids grows with every pushed attendee.
RECURSIVE PushNewTracked(_, _, _)
PushNewTracked(list, existing_ids, incoming) ==
    IF incoming = <<>> THEN list
    ELSE LET attendee == Head(incoming) IN
         IF ~Contains(existing_ids, attendee.id)
         THEN PushNewTracked(Append(list, attendee),
                             Append(existing_ids, attendee.id), Tail(incoming))
         ELSE PushNewTracked(list, existing_ids, Tail(incoming))

\* A plausible slip: the scalar fields are assigned unconditionally, so a
\* null in a later chunk erases what an earlier chunk said.
UpdateKeyFactsNullErases(key_facts, chunk_summary) ==
    LET cs == chunk_summary.key_facts IN
    [responisible_for_moderation |-> cs.responisible_for_moderation,
     responisible_for_protocol |-> cs.responisible_for_protocol,
     responisible_for_timekeeping |-> cs.responisible_for_timekeeping,
     attendees |->
        IF IsSome(cs.attendees)
        THEN IF ~IsSome(key_facts.attendees)
             THEN Some(Unwrap(cs.attendees))
             ELSE Some(PushNewTracked(Unwrap(key_facts.attendees),
                                      IdsOf(Unwrap(key_facts.attendees)),
                                      Unwrap(cs.attendees)))
        ELSE key_facts.attendees]

UpdateKeyFacts(key_facts, chunk_summary) ==
    LET cs == chunk_summary.key_facts IN
    [responisible_for_moderation |->
        IF IsSome(cs.responisible_for_moderation)
        THEN Some(Unwrap(cs.responisible_for_moderation))
        ELSE key_facts.responisible_for_moderation,
     responisible_for_protocol |->
        IF IsSome(cs.responisible_for_protocol)
        THEN Some(Unwrap(cs.responisible_for_protocol))
        ELSE key_facts.responisible_for_protocol,
     responisible_for_timekeeping |->
        IF IsSome(cs.responisible_for_timekeeping)
        THEN Some(Unwrap(cs.responisible_for_timekeeping))
        ELSE key_facts.responisible_for_timekeeping,
     attendees |->
        IF IsSome(cs.attendees)
        THEN IF ~IsSome(key_facts.attendees)
             THEN Some(Unwrap(cs.attendees))
             ELSE Some(PushNewTracked(Unwrap(key_facts.attendees),
                                      IdsOf(Unwrap(key_facts.attendees)),
                                      Unwrap(cs.attendees)))
        ELSE key_facts.attendees]

(***************************************************************************)
(* combine_structured_first_summaries (summary.rs 343-406).                *)
(***************************************************************************)
\* The loop of lines 379-388: existing_ids is computed once, before the loop,
\* and is not extended while the loop pushes.
RECURSIVE PushNewUntracked(_, _, _)
PushNewUntracked(list, existing_ids, incoming) ==
    IF incoming = <<>> THEN list
    ELSE LET attendee == Head(incoming) IN
         IF ~Contains(existing_ids, attendee.id)
         THEN PushNewUntracked(Append(list, attendee), existing_ids, Tail(incoming))
         ELSE PushNewUntracked(list, existing_ids, Tail(incoming))

\* `combined.topics.extend(summary.topics)` (line 393); a variant that skips
\* a topic whose title the combined list already has.
RECURSIVE ExtendTopicsMergingTitles(_, _)
ExtendTopicsMergingTitles(topics, more) ==
    IF more = <<>> THEN topics
    ELSE IF \E i \in 1..Len(topics) : topics[i].title = Head(more).title
    THEN ExtendTopicsMergingTitles(topics, Tail(more))
    ELSE ExtendTopicsMergingTitles(Append(topics, Head(more)), Tail(more))

ExtendTopics(topics, more) == topics \o more

\* The todos of lines 395-403; a variant that treats a present but empty
\* list like an absent one.
ExtendTodosSkippingEmpty(todos, more) ==
    IF IsSome(more) /\ Unwrap(more) # <<>>
    THEN IF ~IsSome(todos)
         THEN Some(Unwrap(more))
         ELSE Some(Unwrap(todos) \o Unwrap(more))
    ELSE todos

ExtendTodos(todos, more) ==
    IF IsSome(more)
    THEN IF ~IsSome(todos)
         THEN Some(Unwrap(more))
         ELSE Some(Unwrap(todos) \o Unwrap(more))
    ELSE todos

\* One iteration of the loop `for summary in summaries` (lines 355-403).
CombineStep(combined, summary) ==
    LET kf == summary.key_facts
        ckf == combined.key_facts
    IN
    [key_facts |->
        [responisible_for_moderation |->
            IF IsSome(kf.responisible_for_moderation)
            THEN Some(Unwrap(kf.responisible_for_moderation))
            ELSE ckf.responisible_for_moderation,
         responisible_for_protocol |->
            IF IsSome(kf.responisible_for_protocol)
            THEN Some(Unwrap(kf.responisible_for_protocol))
            ELSE ckf.responisible_for_protocol,
         responisible_for_timekeeping |->
            IF IsSome(kf.responisible_for_timekeeping)
            THEN Some(Unwrap(kf.responisible_for_timekeeping))
            ELSE ckf.responisible_for_timekeeping,
         attendees |->
            IF IsSome(kf.attendees)
            THEN IF ~IsSome(ckf.attendees)
                 THEN Some(Unwrap(kf.attendees))
                 ELSE Some(PushNewUntracked(Unwrap(ckf.attendees),
                                            IdsOf(Unwrap(ckf.attendees)),
                                            Unwrap(kf.attendees)))
            ELSE ckf.attendees],
     topics |-> ExtendTopics(combined.topics, summary.topics),
     todos |-> ExtendTodos(combined.todos, summary.todos)]

RECURSIVE CombineFrom(_, _)
CombineFrom(combined, summaries) ==
    IF summaries = <<>> THEN combined
    ELSE CombineFrom(CombineStep(combined, Head(summaries)), Tail(summaries))

CombineStructuredFirstSummaries(summaries) ==
    CombineFrom(EmptyFirstSummary, summaries)

(***************************************************************************)
(* FinalSummaryFormat and its renderings (llm/models.rs).                  *)
(***************************************************************************)
\* Topic { title, bullet_points, sub_topics }
Topic(title, bullet_points, sub_topics) ==
    [title |-> title, bullet_points |-> bullet_points, sub_topics |-> sub_topics]

\* ToDo { assignees, task }
ToDo(assignees, task) == [assignees |-> assignees, task |-> task]

\* Title { emoji, text }
Title(emoji, text) == [emoji |-> emoji, text |-> text]

\* Title::to_string: format!("{} {}", emoji, text)
TitleToString(title) == title.emoji \o " " \o title.text

FinalSummaryFormat(title, key_facts, summary, topics, todos) ==
    [title |-> title, key_facts |-> key_facts, summary |-> summary,
     topics |-> topics, todos |-> todos]

RECURSIVE Join(_, _)
Join(strings, sep) ==
    IF strings = <<>> THEN ""
    ELSE IF Len(strings) = 1 THEN strings[1]
    ELSE strings[1] \o sep \o Join(Tail(strings), sep)

RECURSIVE AttendeeLines(_)
AttendeeLines(attendees) ==
    IF attendees = <<>> THEN <<>>
    ELSE << "  - " \o Head(attendees).name >> \o AttendeeLines(Tail(attendees))

RECURSIVE BulletLines(_)
BulletLines(bullet_points) ==
    IF bullet_points = <<>> THEN <<>>
    ELSE << "- " \o Head(bullet_points) >> \o BulletLines(Tail(bullet_points))

\* Only the top-level topics are rendered; sub_topics are not.
RECURSIVE TopicLines(_)
TopicLines(topics) ==
    IF topics = <<>> THEN <<>>
    ELSE << "### " \o Head(topics).title \o " " >>
         \o BulletLines(Head(topics).bullet_points)
         \o TopicLines(Tail(topics))

RECURSIVE TodoLines(_)
TodoLines(todos) ==
    IF todos = <<>> THEN <<>>
    ELSE << "### " \o Head(todos).task \o " " >>
         \o (IF IsSome(Head(todos).assignees)
             THEN << "  - **Assignees:** " \o Join(Unwrap(Head(todos).assignees), ", ") >>
             ELSE <<>>)
         \o TodoLines(Tail(todos))

\* MeetingToMarkdown for FinalSummaryFormat: the markdown text as its lines.
ToMarkdown(content) ==
    LET kf == content.key_facts
    IN  << "# " \o content.title.text, "", content.summary, "", "## Key Facts" >>
        \o (IF IsSome(kf.responisible_for_moderation)
            THEN << "- **Moderation:** " \o Unwrap(kf.responisible_for_moderation) >>
            ELSE <<>>)
        \o (IF IsSome(kf.responisible_for_protocol)
            THEN << "- **Protocol:** " \o Unwrap(kf.responisible_for_protocol) >>
            ELSE <<>>)
        \o (IF IsSome(kf.responisible_for_timekeeping)
            THEN << "- **Timekeeping:** " \o Unwrap(kf.responisible_for_timekeeping) >>
            ELSE <<>>)
        \o (IF IsSome(kf.attendees)
            THEN << "- **Attendees:**" >> \o AttendeeLines(Unwrap(kf.attendees))
            ELSE <<>>)
        \o << "## Topics" >> \o TopicLines(content.topics)
        \o << "## To-Dos" >> \o TodoLines(content.todos)

\* serde_json::to_string / json!(..).to_string(): the JSON text of a value.
\* A text is either the JSON of a value of a named shape or not JSON of any
\* expected shape.
JsonText(shape, value) == [shape |-> shape, value |-> value]

MalformedText == [shape |-> "malformed", value |-> <<>>]

\* Result<T, LlmError>
Ok(value) == [ok |-> TRUE, error |-> "", value |-> value]

Err(error, msg) == [ok |-> FALSE, error |-> error, value |-> msg]

IsErr(res, error) == ~res.ok /\ res.error = error

\* serde_json::from_str::<FirstSummaryFormat> with its map_err (summary.rs 272-273);
\* a lenient variant that swallows the failure and carries on with an empty summary.
ParseFirstSummaryLenient(text) ==
    IF text.shape = "FirstSummaryFormat" THEN Ok(text.value) ELSE Ok(EmptyFirstSummary)

ParseFirstSummary(text) ==
    IF text.shape = "FirstSummaryFormat"
    THEN Ok(text.value)
    ELSE Err("ParseError", "Failed to parse chunk summary JSON")

(***************************************************************************)
(* LlmConfig (llm/config.rs). A String is the sequence of its characters.  *)
(***************************************************************************)
\* `self.chunk_size > 50_000` (config.rs 41).
MaxChunkSize == 50000

\* `self.timeout_seconds > 3600` (config.rs 49).
MaxTimeoutSeconds == 3600

\* struct LlmConfig
LlmConfig(use_external_api, external_endpoint, external_model, chunk_size, max_retries, timeout_seconds) ==
    [use_external_api |-> use_external_api, external_endpoint |-> external_endpoint,
     external_model |-> external_model, chunk_size |-> chunk_size,
     max_retries |-> max_retries, timeout_seconds |-> timeout_seconds]

\* "http://localhost:11434"
DefaultEndpoint ==
    <<"h", "t", "t", "p", ":", "/", "/", "l", "o", "c", "a", "l", "h", "o", "s", "t", ":", "1", "1", "4", "3", "4">>

\* "llama3.1"
DefaultModel == <<"l", "l", "a", "m", "a", "3", ".", "1">>

\* impl Default for LlmConfig
DefaultConfig == LlmConfig(TRUE, DefaultEndpoint, DefaultModel, 10000, 3, 120)

\* String::is_empty
IsEmpty(s) == Len(s) = 0

\* str::starts_with
StartsWith(s, prefix) == Len(s) >= Len(prefix) /\ SubSeq(s, 1, Len(prefix)) = prefix

\* Result<(), String>
Valid == [ok |-> TRUE, value |-> ""]

Invalid(msg) == [ok |-> FALSE, value |-> msg]

\* LlmConfig::validate; a variant whose ceiling excludes 50,000.
ValidateCeilingExclusive(config) ==
    IF IsEmpty(config.external_endpoint) THEN Invalid("External endpoint cannot be empty")
    ELSE IF IsEmpty(config.external_model) THEN Invalid("External model cannot be empty")
    ELSE IF config.chunk_size = 0 THEN Invalid("Chunk size must be greater than 0")
    ELSE IF config.chunk_size >= MaxChunkSize
    THEN Invalid("Chunk size too large (max 50,000 characters)")
    ELSE IF config.timeout_seconds = 0 THEN Invalid("Timeout must be greater than 0")
    ELSE IF config.timeout_seconds > MaxTimeoutSeconds
    THEN Invalid("Timeout too large (max 1 hour)")
    ELSE IF /\ ~StartsWith(config.external_endpoint, <<"h", "t", "t", "p", ":", "/", "/">>)
            /\ ~StartsWith(config.external_endpoint, <<"h", "t", "t", "p", "s", ":", "/", "/">>)
    THEN Invalid("External endpoint must be a valid HTTP/HTTPS URL")
    ELSE Valid

Validate(config) ==
    IF IsEmpty(config.external_endpoint) THEN Invalid("External endpoint cannot be empty")
    ELSE IF IsEmpty(config.external_model) THEN Invalid("External model cannot be empty")
    ELSE IF config.chunk_size = 0 THEN Invalid("Chunk size must be greater than 0")
    ELSE IF config.chunk_size > MaxChunkSize
    THEN Invalid("Chunk size too large (max 50,000 characters)")
    ELSE IF config.timeout_seconds = 0 THEN Invalid("Timeout must be greater than 0")
    ELSE IF config.timeout_seconds > MaxTimeoutSeconds
    THEN Invalid("Timeout too large (max 1 hour)")
    ELSE IF /\ ~StartsWith(config.external_endpoint, <<"h", "t", "t", "p", ":", "/", "/">>)
            /\ ~StartsWith(config.external_endpoint, <<"h", "t", "t", "p", "s", ":", "/", "/">>)
    THEN Invalid("External endpoint must be a valid HTTP/HTTPS URL")
    ELSE Valid

\* with_chunk_size, with_timeout, with_retries
WithChunkSize(config, chunk_size) == [config EXCEPT !.chunk_size = chunk_size]

WithTimeout(config, timeout_seconds) == [config EXCEPT !.timeout_seconds = timeout_seconds]

WithRetries(config, max_retries) == [config EXCEPT !.max_retries = max_retries]

\* The values a caller may put into a configuration: the empty string,
\* "not-a-url", the default, "https://h", the near misses "http:/h" and
\* "ftp://h", and the bare scheme "http://".
Endpoints ==
    {<<>>,
     <<"n", "o", "t", "-", "a", "-", "u", "r", "l">>,
     DefaultEndpoint,
     <<"h", "t", "t", "p", "s", ":", "/", "/", "h">>,
     <<"h", "t", "t", "p", ":", "/", "h">>,
     <<"f", "t", "p", ":", "/", "/", "h">>,
     <<"h", "t", "t", "p", ":", "/", "/">>}

Models == {<<>>, DefaultModel}

ChunkSizes == {0, 1, 10000, 15000, MaxChunkSize, MaxChunkSize + 1}

TimeoutValues == {0, 1, 120, 300, MaxTimeoutSeconds, MaxTimeoutSeconds + 1}

RetryValues == {3, 5}

(***************************************************************************)
(* The orchestrator: bounds, inputs and state.                             *)
(***************************************************************************)
\* Number of generate_summary / regenerate_final_summary invocations.
NumRequests == 2
\* Most chunks the segmenter returns for a transcript.
MaxChunks == 2

\* `transcript.len() > 10_000` (summary.rs 50).
DirectThreshold == 10000

\* The transcripts that are segmented in full: LongTextLen blocks, each of
\* letters only or of spaces only, at most MaxSpaces of them of spaces, cut
\* LongChunkSize blocks at a time. A block stands for
\* DirectThreshold / LongChunkSize equal characters, so that LongChunkSize
\* blocks are the chunk size of 10,000.
LongChunkSize == 4

LongTextLen == 10

MaxSpaces == 2

BlockLen == DirectThreshold \div LongChunkSize

\* The chunk files a meeting's directory can hold.
ChunkIndices == 1..(MaxChunks + LongTextLen)

Requests == 1..NumRequests

Meetings == {"m1", "m2"}

Commands == {"generate_summary", "regenerate_final_summary"}

\* What the transcript store can hold for a meeting: the text's length in
\* bytes (String::len), its length in characters (chars().count()) and the
\* chunks split_text_into_chunks returns for it.
Transcript(len, chars, chunks) == [len |-> len, chars |-> chars, chunks |-> chunks]

ChunkText(i) == "chunk " \o ToString(i)

\* The last one holds 9,999 one-byte characters and one three-byte character:
\* 10,000 characters in 10,002 bytes, which the default chunk_size of 10,000
\* characters does not split.
Transcripts ==
    {Transcript(0, 0, <<>>), Transcript(DirectThreshold, DirectThreshold, <<>>)}
    \cup {Transcript(DirectThreshold + 1, DirectThreshold + 1, [i \in 1..n |-> ChunkText(i)]) :
              n \in 1..MaxChunks}
    \cup {Transcript(DirectThreshold + 2, DirectThreshold, <<ChunkText(1)>>)}

\* What the model may answer for a chunk, when it answers with conforming JSON.
ChunkOutputs ==
    {FirstSummaryFormat(
        KeyFact(Some("Ann"), None, None, Some(<<Attendee(1, "Ann")>>)),
        <<Topic("Budget", <<"approved">>, None)>>,
        None),
     FirstSummaryFormat(
        KeyFact(None, Some("Bob"), None, Some(<<Attendee(1, "Anna"), Attendee(2, "Bob")>>)),
        <<Topic("Budget", <<"revisited">>, None)>>,
        Some(<<ToDo(Some(<<"Bob">>), "send minutes")>>))}

\* What the model may answer at the final synthesis, when it conforms.
FinalOutputs ==
    {FinalSummaryFormat(Title("E", "Weekly sync"),
                        KeyFact(Some("Ann"), None, None, Some(<<Attendee(1, "Ann")>>)),
                        "Budget approved.",
                        <<Topic("Budget", <<"approved">>, None)>>,
                        <<ToDo(Some(<<"Bob">>), "send minutes")>>)}

\* A final summary left on disk by an earlier session.
EarlierFinal ==
    FinalSummaryFormat(Title("O", "Old title"), EmptyKeyFact, "Old summary.", <<>>, <<>>)

VARIABLES
    lock,                   \* holder of the Mutex<AppState>: Option<request>
    currently_summarizing,  \* AppState.currently_summarizing: Option<meeting id>
    pc,                     \* where each invocation is suspended
    req,                    \* each invocation's command and meeting_id
    result,                 \* what each invocation returned: Option<LlmResult>
    run,                    \* each invocation's local variables
    log,                    \* per invocation: what it did to its collaborators
    files,                  \* per meeting: the artifact store
    in_summaries,           \* fold harness: the per-chunk summaries given
    folded,                 \* fold harness: how many update_key_facts has folded
    acc_key_facts,          \* fold harness: the running KeyFact
    merged,                 \* fold harness: Option<combined FirstSummaryFormat>
    seg_pc,                 \* segmenter: where split_text_into_chunks is
    seg_text,               \* segmenter: `chars`, the text as its characters
    seg_max_chars,          \* segmenter: max_chars
    seg_current_pos,        \* segmenter: current_pos
    seg_chunks,             \* segmenter: chunks
    seg_windows,            \* segmenter: start, end_pos and break_pos of each iteration
    currently_transcribing, \* AppState.currently_transcribing
    tr_pc,                  \* where the transcribe command is
    llm_config,             \* AppState.llm_config
    built,                  \* configuration harness: the LlmConfig being built
    validated,              \* configuration harness: Option<result of validate()>
    last_call,              \* configuration harness: the last builder call made
    pristine                \* configuration harness: the default, changed in range only

orchVars == <<lock, currently_summarizing, pc, req, result, run, log, files>>

foldVars == <<in_summaries, folded, acc_key_facts, merged>>

segVars == <<seg_pc, seg_text, seg_max_chars, seg_current_pos, seg_chunks, seg_windows>>

cfgVars == <<llm_config, built, validated, last_call, pristine>>

trVars == <<currently_transcribing, tr_pc>>

vars == <<lock, currently_summarizing, pc, req, result, run, log, files,
          in_summaries, folded, acc_key_facts, merged,
          seg_pc, seg_text, seg_max_chars, seg_current_pos, seg_chunks, seg_windows,
          llm_config, built, validated, last_call, pristine,
          currently_transcribing, tr_pc>>

\* The locals of summarize_chunks / regenerate_final_summary and the
\* ProgressTracker's fields.
InitRun ==
    [transcript |-> None, chunks |-> <<>>, i |-> 0, key_facts |-> EmptyKeyFact,
     chunk_summary |-> None, chunk_summaries |-> <<>>, content |-> None,
     total_steps |-> 0, current_step |-> 0, llm_service |-> None]

NoFiles ==
    [chunk_txt |-> [i \in ChunkIndices |-> None],
     chunk_summary |-> [i \in ChunkIndices |-> None],
     all_chunk_summaries |-> None,
     summary_md |-> None, summary_json |-> None, name |-> None]

\* Meeting m1 was summarized in an earlier session (one chunk); m2 never was.
InitFiles ==
    [m \in Meetings |->
        IF m = "m1"
        THEN [NoFiles EXCEPT
                !.chunk_txt[1] = Some(ChunkText(1)),
                !.chunk_summary[1] =
                    Some(JsonText("FirstSummaryFormat",
                                  CHOOSE s \in ChunkOutputs : ~IsSome(s.todos))),
                !.summary_md = Some(ToMarkdown(EarlierFinal)),
                !.summary_json = Some(JsonText("FinalSummaryFormat", EarlierFinal)),
                !.name = Some(TitleToString(EarlierFinal.title))]
        ELSE NoFiles]

InitOrch ==
    /\ lock = None
    /\ currently_summarizing = None
    /\ pc = [r \in Requests |-> "idle"]
    /\ req = [r \in Requests |-> [command |-> "", meeting_id |-> ""]]
    /\ result = [r \in Requests |-> None]
    /\ run = [r \in Requests |-> InitRun]
    /\ log = [r \in Requests |-> <<>>]
    /\ files = InitFiles

InitFoldIdle ==
    /\ in_summaries = <<>>
    /\ folded = 0
    /\ acc_key_facts = EmptyKeyFact
    /\ merged = None

\* split_text_into_chunks has not been called.
InitSegIdle ==
    /\ seg_pc = "idle"
    /\ seg_text = <<>>
    /\ seg_max_chars = 1
    /\ seg_current_pos = 0
    /\ seg_chunks = <<>>
    /\ seg_windows = <<>>

\* AppState::default() holds LlmConfig::default(); nothing is being built.
InitCfgIdle ==
    /\ llm_config = DefaultConfig
    /\ built = DefaultConfig
    /\ validated = None
    /\ last_call = [field |-> "", value |-> 0]
    /\ pristine = TRUE

\* No transcription is running and the transcribe command was not invoked.
InitTrIdle ==
    /\ currently_transcribing = None
    /\ tr_pc = "idle"

Init == InitOrch /\ InitFoldIdle /\ InitSegIdle /\ InitCfgIdle /\ InitTrIdle

(***************************************************************************)
(* Helpers of the actions.                                                 *)
(***************************************************************************)
Event(ev, tag, idx, data) == [ev |-> ev, tag |-> tag, idx |-> idx, data |-> data]

\* app_handle.emit(topic, payload)
Emit(topic, idx, data) == Event("emit", topic, idx, data)

Logged(r, events) == log' = [log EXCEPT ![r] = @ \o events]

Goto(r, label) == pc' = [pc EXCEPT ![r] = label] /\ UNCHANGED result

Return(r, res) ==
    /\ pc' = [pc EXCEPT ![r] = "done"]
    /\ result' = [result EXCEPT ![r] = Some(res)]

MeetingOf(r) == req[r].meeting_id

\* split_text_into_chunks(transcript, config.chunk_size) as called at
\* summary.rs 172: the chunks the segmenter returns for this transcript.
SegmentsOf(transcript) == transcript.chunks

\* PromptManager::chunk_summarization for Language::German (the default every
\* command uses): the prompt embeds json!(key_facts).
ChunkSummarizationPrompt(key_facts) ==
    [prompt |-> "chunk_summarization", key_facts |-> JsonText("KeyFact", key_facts)]

\* PromptManager::final_summary
FinalSummaryPrompt == [prompt |-> "final_summary", key_facts |-> None]

\* How a call of LlmService::try_external_api (service.rs 78-117) can end:
\* the transport fails, the body is no OllamaResponse, or the body's
\* `response` text comes back, which conforms to the requested shape or not.
GatewayEndings == {"transport fails", "body malformed", "text malformed", "text conforms"}

\* A variant that answers a failed call with an empty text, as
\* `.unwrap_or_default()` would.
TryExternalApiDefaultOnError(ending, shape, value) ==
    IF ending = "text conforms" THEN Ok(JsonText(shape, value)) ELSE Ok(MalformedText)

TryExternalApi(ending, shape, value) ==
    CASE ending = "transport fails" -> Err("NetworkError", "Failed to send request to Ollama")
      [] ending = "body malformed" -> Err("ParseError", "Failed to parse Ollama response")
      [] ending = "text malformed" -> Ok(MalformedText)
      [] OTHER -> Ok(JsonText(shape, value))

\* What a request's log keeps of an endpoint call's end: how it ended and
\* what try_external_api returned for it.
Answer(ending, outcome) ==
    [ending |-> ending, ok |-> outcome.ok, error |-> outcome.error, value |-> outcome.value]

\* LlmService::generate_text (service.rs 27-76) after try_external_api came
\* back with `outcome`: the status message it emits and what it returns.
ApiStatusMessage(outcome) ==
    IF outcome.ok THEN "External API successful"
    ELSE "External API failed, switching to local model..."

GenerateTextReturn(outcome, emitted) ==
    IF emitted THEN outcome ELSE Err("NetworkError", "Failed to emit API status")

\* serde_json::from_str::<FinalSummaryFormat> with its map_err (summary.rs 331-332);
\* a lenient variant that swallows the failure and carries on with a default.
ParseFinalSummaryLenient(text) ==
    IF text.shape = "FinalSummaryFormat"
    THEN Ok(text.value)
    ELSE Ok(FinalSummaryFormat(Title("", ""), EmptyKeyFact, "", <<>>, <<>>))

ParseFinalSummary(text) ==
    IF text.shape = "FinalSummaryFormat"
    THEN Ok(text.value)
    ELSE Err("ParseError", "Failed to parse final summary JSON")

\* update_progress with the counter itself as the event's index.
ProgressEventsOneBased(step, total, message) ==
    << Emit("summarization-chunk-progress", step, ""),
       Emit("llm-progress", step,
            "Step " \o ToString(step) \o "/" \o ToString(total) \o ": " \o message) >>

\* ProgressTracker::update_progress: the two events of step number `step`.
ProgressEvents(step, total, message) ==
    << Emit("summarization-chunk-progress", step - 1, ""),
       Emit("llm-progress", step,
            "Step " \o ToString(step) \o "/" \o ToString(total) \o ": " \o message) >>

\* ProgressTracker::start_summarization: its two events.
StartEvents(meeting_id, total) ==
    << Emit("summarization-started", 0, meeting_id),
       Emit("summarization-chunk-start", total, "") >>

\* state.lock().await returns only when nobody holds the mutex; without the
\* mutex every caller would go straight through.
MutexFreeAlways == TRUE

MutexFree == lock = None

\* `state.currently_summarizing.is_some()` (summary.rs 146); a variant that
\* only refuses a second run of the same meeting.
MarkerBusySameMeeting(r) == currently_summarizing = Some(MeetingOf(r))

MarkerBusy(r) == IsSome(currently_summarizing)

\* The `&key_facts` handed to process_chunk (summary.rs 215); a variant that
\* hands over the KeyFact the loop started with.
ProcessChunkKeyFactsStale(r) == EmptyKeyFact

ProcessChunkKeyFacts(r) == run[r].key_facts

\* `generate_text(..).await?` in process_chunk and generate_final_summary
\* (summary.rs 263-270 and 322-329) when generate_text returned Err: the
\* error goes to the caller's caller; a variant that goes back to the head of
\* the step and issues the call again.
GenerateTextFailedRetries(r, returned) ==
    Goto(r, IF pc[r] = "chunk_call" THEN "chunk" ELSE "final")

GenerateTextFailed(r, returned) == Return(r, returned)

\* is_summarizing (summary.rs 416-421): what the command returns.
is_summarizing == currently_summarizing

(***************************************************************************)
(* check_and_set_summarization_state (summary.rs 142-157).                 *)
(***************************************************************************)
\* The tauri command is invoked; it runs up to `state.lock().await`.
\* Invocations are numbered in the order they are made.
Invoke(r) ==
    /\ pc[r] = "idle"
    /\ \A q \in Requests : q < r => pc[q] # "idle"
    /\ \E command \in Commands, meeting_id \in Meetings :
         req' = [req EXCEPT ![r] = [command |-> command, meeting_id |-> meeting_id]]
    /\ Goto(r, "lock")
    /\ UNCHANGED <<lock, currently_summarizing, run, log, files, foldVars, segVars, cfgVars, trVars>>

\* What a command does once check_and_set_summarization_state has returned
\* Ok: generate_summary fetches the transcript (summary.rs 42-44),
\* regenerate_final_summary reads the stored chunk summaries (92-93); a
\* variant in which both fetch the transcript.
AfterCheckAndSetFetches(command) == "fetch"

AfterCheckAndSet(command) ==
    IF command = "generate_summary" THEN "fetch" ELSE "read_chunks"

\* `state.lock().await` returns and the marker is tested (lines 144-148);
\* a refused caller returns, which drops the guard.
CheckAndSetTest(r) ==
    /\ pc[r] = "lock"
    /\ MutexFree
    /\ IF MarkerBusy(r)
       THEN /\ Return(r, Err("ConfigError", "Another summarization is running"))
            /\ lock' = None
       ELSE /\ Goto(r, "set")
            /\ lock' = Some(r)
    /\ UNCHANGED <<currently_summarizing, req, run, log, files, foldVars, segVars, cfgVars, trVars>>

\* The assignment of line 150, the emit of line 152 and the return, which
\* drops the guard.
CheckAndSetSet(r) ==
    /\ pc[r] = "set"
    /\ currently_summarizing' = Some(MeetingOf(r))
    /\ lock' = None
    /\ \E emitted \in BOOLEAN :
         IF emitted
         THEN /\ Logged(r, <<Event("marker", "set", 0, MeetingOf(r)),
                             Emit("summarization-started", 0, MeetingOf(r))>>)
              /\ Goto(r, AfterCheckAndSet(req[r].command))
         ELSE /\ Logged(r, <<Event("marker", "set", 0, MeetingOf(r))>>)
              /\ Return(r, Err("NetworkError", "Failed to emit summarization-started"))
    /\ UNCHANGED <<req, run, files, foldVars, segVars, cfgVars, trVars>>

(***************************************************************************)
(* generate_summary (summary.rs 35-81) up to the chunk loop.               *)
(***************************************************************************)
\* `transcript.is_empty()` (summary.rs 46); a variant that lets an empty
\* transcript through.
TranscriptIsEmptyNever(transcript) == FALSE

TranscriptIsEmpty(transcript) == transcript.len = 0

\* get_meeting_transcript(..).await, the empty test, the length test and the
\* first emit of summarize_long_transcript.
FetchTranscriptFrom(r, texts) ==
    /\ pc[r] = "fetch"
    /\ \E text \in texts, readable \in BOOLEAN, emitted \in BOOLEAN :
         LET read == IF readable THEN Ok(text) ELSE Err("Io", "read_to_string failed")
             fetched == Event("read", "transcript", 0,
                              [meeting_id |-> MeetingOf(r), ok |-> readable,
                               len |-> IF readable THEN text.len ELSE 0,
                               chars |-> IF readable THEN text.chars ELSE 0])
         IN
         IF ~read.ok
         THEN /\ Return(r, Err("FileError", "Failed to get transcript"))
              /\ Logged(r, <<fetched>>)
              /\ UNCHANGED run
         ELSE IF TranscriptIsEmpty(read.value)
         THEN /\ Return(r, Err("FileError", "No transcript to summarize"))
              /\ Logged(r, <<fetched>>)
              /\ UNCHANGED run
         ELSE IF read.value.len > DirectThreshold
         THEN IF emitted
              THEN /\ Logged(r, <<fetched,
                                  Emit("llm-progress", 0,
                                       "Transcript is long, splitting into chunks for processing...")>>)
                   /\ run' = [run EXCEPT ![r].transcript = Some(read.value)]
                   /\ Goto(r, "config")
              ELSE /\ Return(r, Err("NetworkError", "Failed to emit progress"))
                   /\ Logged(r, <<fetched>>)
                   /\ UNCHANGED run
         ELSE /\ Return(r, Err("ConfigError", "Direct summarization not implemented yet"))
              /\ Logged(r, <<fetched>>)
              /\ UNCHANGED run
    /\ UNCHANGED <<lock, currently_summarizing, req, files, foldVars, segVars, cfgVars, trVars>>

FetchTranscript(r) == FetchTranscriptFrom(r, Transcripts)

\* LlmService::new(base_url, model) (service.rs 19-25)
LlmService(base_url, model) == [base_url |-> base_url, model |-> model]

\* The `llm_service` a call goes through: the one built when the run read
\* the configuration; a variant that looks the configuration up per call.
ServiceOfShared(r) == LlmService(llm_config.external_endpoint, llm_config.external_model)

ServiceOf(r) == Unwrap(run[r].llm_service)

\* get_llm_config (summary.rs 179-183) takes and drops the mutex; then, with
\* no further suspension: the split and the start of summarize_chunks
\* (generate_summary), or the ProgressTracker of regenerate_final_summary.
GetLlmConfig(r) ==
    /\ pc[r] = "config"
    /\ MutexFree
    /\ LET generate == req[r].command = "generate_summary"
           chunks == IF generate THEN SegmentsOf(Unwrap(run[r].transcript)) ELSE <<>>
           total == IF generate THEN Len(chunks) + 1 ELSE 1
           starts == StartEvents(MeetingOf(r), total)
       IN \E k \in 0..2 :
            /\ Logged(r, <<Event("read", "llm_config", 0, llm_config)>> \o SubSeq(starts, 1, k))
            /\ run' = [run EXCEPT ![r].chunks = chunks, ![r].total_steps = total,
                                  ![r].llm_service =
                                      Some(LlmService(llm_config.external_endpoint,
                                                      llm_config.external_model))]
            /\ IF k = 2
               THEN Goto(r, IF generate THEN "chunk" ELSE "final")
               ELSE Return(r, Err("NetworkError",
                                  IF k = 0 THEN "Failed to emit summarization-started"
                                  ELSE "Failed to emit summarization-chunk-start"))
    /\ UNCHANGED <<lock, currently_summarizing, req, files, foldVars, segVars, cfgVars, trVars>>

(***************************************************************************)
(* summarize_chunks (summary.rs 185-252) and process_chunk (254-274).      *)
(***************************************************************************)
\* Head of one loop iteration: update_progress, then process_chunk builds the
\* prompt and generate_text emits its status and sends the request.
ChunkBegin(r) ==
    /\ pc[r] = "chunk"
    /\ LET i == run[r].i
           step == run[r].current_step + 1
           events ==
               ProgressEvents(step, run[r].total_steps,
                              "Summarizing chunk " \o ToString(i + 1) \o " of "
                              \o ToString(Len(run[r].chunks)))
               \o <<Emit("llm-progress", 0, "Trying external API...")>>
           call == Event("call", "chunk", i + 1,
                         [system |-> ChunkSummarizationPrompt(ProcessChunkKeyFacts(r)),
                          user |-> run[r].chunks[i + 1],
                          base_url |-> ServiceOf(r).base_url, model |-> ServiceOf(r).model])
       IN \E k \in 0..3 :
            /\ run' = [run EXCEPT ![r].current_step = step]
            /\ IF k = 3
               THEN /\ Logged(r, events \o <<call>>)
                    /\ Goto(r, "chunk_call")
               ELSE /\ Logged(r, SubSeq(events, 1, k))
                    /\ Return(r, Err("NetworkError", "Failed to emit progress"))
    /\ UNCHANGED <<lock, currently_summarizing, req, files, foldVars, segVars, cfgVars, trVars>>

\* The endpoint answers (or the transport fails); generate_text emits its
\* status and returns; process_chunk parses; summarize_chunks folds the
\* chunk's key facts and goes on to save_chunk(..).await.
ChunkResponse(r) ==
    /\ pc[r] = "chunk_call"
    /\ \E ending \in GatewayEndings, answer \in ChunkOutputs, emitted \in BOOLEAN :
         LET outcome == TryExternalApi(ending, "FirstSummaryFormat", answer)
             returned == GenerateTextReturn(outcome, emitted)
             parsed == ParseFirstSummary(returned.value)
         IN /\ Logged(r, <<Event("response", "chunk", run[r].i + 1, Answer(ending, outcome))>>
                         \o (IF emitted
                             THEN <<Emit("llm-progress", 0, ApiStatusMessage(outcome))>>
                             ELSE <<>>))
            /\ IF ~returned.ok
               THEN GenerateTextFailed(r, returned) /\ UNCHANGED run
               ELSE IF ~parsed.ok
               THEN Return(r, parsed) /\ UNCHANGED run
               ELSE /\ run' = [run EXCEPT
                                 ![r].chunk_summary = Some(parsed.value),
                                 ![r].key_facts = UpdateKeyFacts(@, parsed.value)]
                    /\ Goto(r, "save_chunk")
    /\ UNCHANGED <<lock, currently_summarizing, req, files, foldVars, segVars, cfgVars, trVars>>

\* file_manager.save_chunk(meeting_id, i, chunk).await with its `?`.
SaveChunk(r) ==
    /\ pc[r] = "save_chunk"
    /\ LET n == run[r].i + 1
           text == run[r].chunks[n]
       IN \E written \in BOOLEAN :
            IF written
            THEN /\ files' = [files EXCEPT ![MeetingOf(r)].chunk_txt[n] = Some(text)]
                 /\ Logged(r, <<Event("write", "chunk", n, text)>>)
                 /\ Goto(r, "save_chunk_summary")
            ELSE /\ Return(r, Err("FileError", "Failed to save chunk " \o ToString(n)))
                 /\ UNCHANGED <<files, log>>
    /\ UNCHANGED <<lock, currently_summarizing, req, run, foldVars, segVars, cfgVars, trVars>>

\* to_string_pretty, save_chunk_summary(..).await with its `?`, the push; then
\* the next iteration or, after the last one, log_timing_stats.
SaveChunkSummary(r) ==
    /\ pc[r] = "save_chunk_summary"
    /\ LET n == run[r].i + 1
           chunk_summary == Unwrap(run[r].chunk_summary)
           json == JsonText("FirstSummaryFormat", chunk_summary)
           write == Event("write", "chunk_summary", n, json)
           last == n = Len(run[r].chunks)
       IN \E written \in BOOLEAN, emitted \in BOOLEAN :
            IF ~written
            THEN /\ Return(r, Err("FileError", "Failed to save chunk summary " \o ToString(n)))
                 /\ UNCHANGED <<files, log, run>>
            ELSE /\ files' = [files EXCEPT ![MeetingOf(r)].chunk_summary[n] = Some(json)]
                 /\ run' = [run EXCEPT ![r].chunk_summaries = Append(@, chunk_summary),
                                       ![r].i = n]
                 /\ IF ~last
                    THEN Logged(r, <<write>>) /\ Goto(r, "chunk")
                    ELSE IF emitted
                    THEN /\ Logged(r, <<write, Emit("llm-progress", 0, "Chunk stats")>>)
                         /\ Goto(r, "save_all")
                    ELSE /\ Logged(r, <<write>>)
                         /\ Return(r, Err("NetworkError", "Failed to emit timing stats"))
    /\ UNCHANGED <<lock, currently_summarizing, req, foldVars, segVars, cfgVars, trVars>>

\* save_all_chunk_summaries(..).await with its `?`.
SaveAllChunkSummaries(r) ==
    /\ pc[r] = "save_all"
    /\ LET summary_strings ==
               [j \in 1..Len(run[r].chunk_summaries) |->
                    JsonText("FirstSummaryFormat", run[r].chunk_summaries[j])]
       IN \E written \in BOOLEAN :
            IF written
            THEN /\ files' = [files EXCEPT
                                ![MeetingOf(r)].all_chunk_summaries = Some(summary_strings)]
                 /\ Logged(r, <<Event("write", "all_chunk_summaries", 0, summary_strings)>>)
                 /\ Goto(r, "final")
            ELSE /\ Return(r, Err("FileError", "Failed to save all chunk summaries"))
                 /\ UNCHANGED <<files, log>>
    /\ UNCHANGED <<lock, currently_summarizing, req, run, foldVars, segVars, cfgVars, trVars>>

(***************************************************************************)
(* generate_final_summary (summary.rs 308-341).                            *)
(***************************************************************************)
\* update_progress, the mechanical merge, and generate_text up to the send.
FinalBegin(r) ==
    /\ pc[r] = "final"
    /\ LET step == run[r].current_step + 1
           events ==
               ProgressEvents(step, run[r].total_steps,
                              "Combining chunk summaries into final summary...")
               \o <<Emit("llm-progress", 0, "Trying external API...")>>
           combined_summaries == CombineStructuredFirstSummaries(run[r].chunk_summaries)
           call == Event("call", "final", 0,
                         [system |-> FinalSummaryPrompt,
                          user |-> JsonText("FirstSummaryFormat", combined_summaries),
                          base_url |-> ServiceOf(r).base_url, model |-> ServiceOf(r).model])
       IN \E k \in 0..3 :
            /\ run' = [run EXCEPT ![r].current_step = step]
            /\ IF k = 3
               THEN /\ Logged(r, events \o <<call>>)
                    /\ Goto(r, "final_call")
               ELSE /\ Logged(r, SubSeq(events, 1, k))
                    /\ Return(r, Err("NetworkError", "Failed to emit progress"))
    /\ UNCHANGED <<lock, currently_summarizing, req, files, foldVars, segVars, cfgVars, trVars>>

\* The endpoint answers; generate_text returns; the text is parsed as a
\* FinalSummaryFormat; the caller goes on to save_final_summary(..).await.
FinalResponse(r) ==
    /\ pc[r] = "final_call"
    /\ \E ending \in GatewayEndings, answer \in FinalOutputs, emitted \in BOOLEAN :
         LET outcome == TryExternalApi(ending, "FinalSummaryFormat", answer)
             returned == GenerateTextReturn(outcome, emitted)
             parsed == ParseFinalSummary(returned.value)
         IN /\ Logged(r, <<Event("response", "final", 0, Answer(ending, outcome))>>
                         \o (IF emitted
                             THEN <<Emit("llm-progress", 0, ApiStatusMessage(outcome))>>
                             ELSE <<>>))
            /\ IF ~returned.ok
               THEN GenerateTextFailed(r, returned) /\ UNCHANGED run
               ELSE IF ~parsed.ok
               THEN Return(r, parsed) /\ UNCHANGED run
               ELSE /\ run' = [run EXCEPT ![r].content = Some(parsed.value)]
                    /\ Goto(r, "save_md")
    /\ UNCHANGED <<lock, currently_summarizing, req, files, foldVars, segVars, cfgVars, trVars>>

(***************************************************************************)
(* Persisting the result (summary.rs 56-81 and 108-140; file_manager.rs).  *)
(***************************************************************************)
\* `.map_err(|e| LlmError::FileError(e))?` on save_final_summary and on
\* save_meeting_metadata (summary.rs 57-61 and 109-113): what the caller does
\* with the outcome of a required write; a variant that drops the outcome.
RequiredWriteIgnored(written, msg) == Ok("")

RequiredWrite(written, msg) ==
    IF written THEN Ok("") ELSE Err("FileError", msg)

\* save_final_summary, first write: summary.md.
SaveSummaryMarkdown(r) ==
    /\ pc[r] = "save_md"
    /\ LET markdown == ToMarkdown(Unwrap(run[r].content)) IN
       \E written \in BOOLEAN :
         LET saved == RequiredWrite(written, "Failed to save summary markdown") IN
         /\ IF written
            THEN /\ files' = [files EXCEPT ![MeetingOf(r)].summary_md = Some(markdown)]
                 /\ Logged(r, <<Event("write", "summary.md", 0, markdown)>>)
            ELSE UNCHANGED <<files, log>>
         /\ IF saved.ok THEN Goto(r, "save_json") ELSE Return(r, saved)
    /\ UNCHANGED <<lock, currently_summarizing, req, run, foldVars, segVars, cfgVars, trVars>>

\* save_final_summary, second write: summary.json.
SaveSummaryJson(r) ==
    /\ pc[r] = "save_json"
    /\ LET json == JsonText("FinalSummaryFormat", Unwrap(run[r].content)) IN
       \E written \in BOOLEAN :
         LET saved == RequiredWrite(written, "Failed to save summary JSON") IN
         /\ IF written
            THEN /\ files' = [files EXCEPT ![MeetingOf(r)].summary_json = Some(json)]
                 /\ Logged(r, <<Event("write", "summary.json", 0, json)>>)
            ELSE UNCHANGED <<files, log>>
         /\ IF saved.ok THEN Goto(r, "save_meta") ELSE Return(r, saved)
    /\ UNCHANGED <<lock, currently_summarizing, req, run, foldVars, segVars, cfgVars, trVars>>

\* save_meeting_metadata(meeting_id, content.title.to_string()); then
\* generate_summary emits its completion message and returns (lines 63-80),
\* while regenerate_final_summary goes on to `state.lock().await` (line 118).
SaveMeetingMetadata(r) ==
    /\ pc[r] = "save_meta"
    /\ LET content == Unwrap(run[r].content)
           name == TitleToString(content.title)
       IN \E written \in BOOLEAN, emitted \in BOOLEAN :
            LET saved == RequiredWrite(written, "Failed to write metadata")
                write == IF written
                         THEN <<Event("write", "meeting.json", 0, name)>> ELSE <<>>
            IN
            /\ files' = IF written
                        THEN [files EXCEPT ![MeetingOf(r)].name = Some(name)]
                        ELSE files
            /\ IF ~saved.ok
               THEN Logged(r, write) /\ Return(r, saved)
               ELSE IF req[r].command = "regenerate_final_summary"
               THEN Logged(r, write) /\ Goto(r, "reset")
               ELSE IF emitted
               THEN /\ Logged(r, write \o <<Emit("llm-progress", 0, "Summary completed")>>)
                    /\ Return(r, Ok(ToMarkdown(content)))
               ELSE /\ Logged(r, write)
                    /\ Return(r, Err("NetworkError", "Failed to emit progress"))
    /\ UNCHANGED <<lock, currently_summarizing, req, run, foldVars, segVars, cfgVars, trVars>>

(***************************************************************************)
(* regenerate_final_summary (summary.rs 84-140).                           *)
(***************************************************************************)
\* The chunk_NNN_summary.json files of a meeting, from 1 up to the first one
\* missing, parsed.
StoredChunkSummaries(meeting_id) ==
    LET present == {k \in {0} \cup ChunkIndices :
                        \A i \in 1..k : IsSome(files[meeting_id].chunk_summary[i])}
        count == CHOOSE k \in present : \A j \in present : j <= k
    IN  [i \in 1..count |-> Unwrap(files[meeting_id].chunk_summary[i]).value]

\* file_manager.read_chunk_summaries(meeting_id).await with its `?`.
ReadChunkSummaries(r) ==
    /\ pc[r] = "read_chunks"
    /\ \E read \in BOOLEAN :
         IF read
         THEN /\ run' = [run EXCEPT ![r].chunk_summaries = StoredChunkSummaries(MeetingOf(r))]
              /\ Goto(r, "config")
         ELSE /\ Return(r, Err("FileError", "Failed to read chunk summaries"))
              /\ UNCHANGED run
    /\ Logged(r, <<Event("read", "chunk_summaries", 0, MeetingOf(r))>>)
    /\ UNCHANGED <<lock, currently_summarizing, req, files, foldVars, segVars, cfgVars, trVars>>

\* "Reset summarization state" (lines 115-120) under the mutex, then the
\* completion message and the return (lines 122-139).
ResetSummarizationState(r) ==
    /\ pc[r] = "reset"
    /\ MutexFree
    /\ currently_summarizing' = None
    /\ \E emitted \in BOOLEAN :
         IF emitted
         THEN /\ Logged(r, <<Event("marker", "clear", 0, MeetingOf(r)),
                             Emit("llm-progress", 0, "Final summary regenerated")>>)
              /\ Return(r, Ok(ToMarkdown(Unwrap(run[r].content))))
         ELSE /\ Logged(r, <<Event("marker", "clear", 0, MeetingOf(r))>>)
              /\ Return(r, Err("NetworkError", "Failed to emit progress"))
    /\ UNCHANGED <<lock, req, run, files, foldVars, segVars, cfgVars, trVars>>

(***************************************************************************)
(* The orchestrator's specification.                                       *)
(***************************************************************************)
Next ==
    \E r \in Requests :
        \/ Invoke(r)
        \/ CheckAndSetTest(r)
        \/ CheckAndSetSet(r)
        \/ FetchTranscript(r)
        \/ ReadChunkSummaries(r)
        \/ GetLlmConfig(r)
        \/ ChunkBegin(r)
        \/ ChunkResponse(r)
        \/ SaveChunk(r)
        \/ SaveChunkSummary(r)
        \/ SaveAllChunkSummaries(r)
        \/ FinalBegin(r)
        \/ FinalResponse(r)
        \/ SaveSummaryMarkdown(r)
        \/ SaveSummaryJson(r)
        \/ SaveMeetingMetadata(r)
        \/ ResetSummarizationState(r)

Spec == Init /\ [][Next]_vars

\* One invocation on its own: the first command invoked after startup runs
\* to its return and nothing else is invoked meanwhile.
NextRun ==
    \/ Invoke(1)
    \/ CheckAndSetTest(1)
    \/ CheckAndSetSet(1)
    \/ FetchTranscript(1)
    \/ ReadChunkSummaries(1)
    \/ GetLlmConfig(1)
    \/ ChunkBegin(1)
    \/ ChunkResponse(1)
    \/ SaveChunk(1)
    \/ SaveChunkSummary(1)
    \/ SaveAllChunkSummaries(1)
    \/ FinalBegin(1)
    \/ FinalResponse(1)
    \/ SaveSummaryMarkdown(1)
    \/ SaveSummaryJson(1)
    \/ SaveMeetingMetadata(1)
    \/ ResetSummarizationState(1)

SpecRun == Init /\ [][NextRun]_vars

\* The steps of the invocation that do not wait for the inference endpoint:
\* the runtime runs the command's future whenever it can go on, and the
\* mutex and the file system answer. The endpoint's answer is not among them:
\* Client::new() (service.rs 21) sets no timeout and nothing wraps the send
\* of lines 105-110, so the future stays suspended for as long as the
\* endpoint stays silent.
ProgramStep ==
    \/ Invoke(1)
    \/ CheckAndSetTest(1)
    \/ CheckAndSetSet(1)
    \/ FetchTranscript(1)
    \/ ReadChunkSummaries(1)
    \/ GetLlmConfig(1)
    \/ ChunkBegin(1)
    \/ SaveChunk(1)
    \/ SaveChunkSummary(1)
    \/ SaveAllChunkSummaries(1)
    \/ FinalBegin(1)
    \/ SaveSummaryMarkdown(1)
    \/ SaveSummaryJson(1)
    \/ SaveMeetingMetadata(1)
    \/ ResetSummarizationState(1)

(***************************************************************************)
(* C1-C4: the busy marker.                                                 *)
(***************************************************************************)
\* Between the return of check_and_set_summarization_state and the return of
\* the command: the run is Running.
RunningStages ==
    {"fetch", "read_chunks", "config", "chunk", "chunk_call", "save_chunk",
     "save_chunk_summary", "save_all", "final", "final_call", "save_md",
     "save_json", "save_meta", "reset"}

Running(r) == pc[r] \in RunningStages

\* The request has seen the marker unset and has not returned yet.
Admitted(r) == pc[r] = "set" \/ Running(r)

BusyRejected(r) ==
    /\ pc[r] = "done"
    /\ IsSome(result[r])
    /\ IsErr(Unwrap(result[r]), "ConfigError")
    /\ Unwrap(result[r]).value = "Another summarization is running"

\* C1: under every interleaving of generate_summary and
\* regenerate_final_summary requests, for the same or different meetings, at
\* most one request has passed the test of currently_summarizing and not yet
\* returned; a request between the test and the assignment holds the AppState
\* mutex, and whoever holds the mutex is at that point.
C1_AtMostOneRunning ==
    /\ Cardinality({r \in Requests : Admitted(r)}) <= 1
    /\ \A r \in Requests : pc[r] = "set" <=> lock = Some(r)

\* C1 witness: two near-simultaneous requests: one is inside the critical
\* section, past the test, while the other waits at state.lock().
C1_Witness ==
    \E q, r \in Requests : q # r /\ pc[q] = "set" /\ pc[r] = "lock"

\* C2: while a summarization is Running, is_summarizing returns its meeting
\* id; a further request of either command, for any meeting, that gets the
\* mutex returns the busy ConfigError in that very step, leaving the marker
\* and every artifact unchanged and having called nothing; and a rejected
\* request never does anything afterwards.
C2_BusyRejection ==
    /\ [](\A q \in Requests : Running(q) => is_summarizing = Some(MeetingOf(q)))
    /\ [][\A r \in Requests :
            (/\ pc[r] = "lock"
             /\ pc'[r] # "lock"
             /\ \E q \in Requests \ {r} : Running(q))
            => /\ BusyRejected(r)'
               /\ currently_summarizing' = currently_summarizing
               /\ files' = files
               /\ log[r] = <<>> /\ log'[r] = <<>>]_vars
    /\ [][\A r \in Requests :
            BusyRejected(r)
            => /\ BusyRejected(r)'
               /\ log'[r] = <<>>
               /\ run'[r] = InitRun]_vars

\* C2 witness: a request for another meeting has been rejected as busy while
\* the running request waits for the model's answer to a chunk.
C2_Witness ==
    \E q, r \in Requests :
        /\ pc[q] = "chunk_call"
        /\ BusyRejected(r)
        /\ MeetingOf(r) # MeetingOf(q)
        /\ is_summarizing = Some(MeetingOf(q))

\* C3 as stated: once every accepted run has finished, on whatever exit path,
\* the busy marker is clear (so that the next request is accepted).
C3_MarkerClearedOnEveryExit ==
    (\A r \in Requests : ~Admitted(r)) => currently_summarizing = None

EventIs(e, ev, tag) == e.ev = ev /\ e.tag = tag

\* The positions of the events of one kind in a request's log.
Positions(r, ev, tag) == {j \in 1..Len(log[r]) : EventIs(log[r][j], ev, tag)}

\* C4 as stated: a request that returned success wrote the final summary,
\* then the title, then released the marker, in this order, before returning.
C4_ReleaseAfterWrites ==
    \A r \in Requests :
        (pc[r] = "done" /\ IsSome(result[r]) /\ Unwrap(result[r]).ok)
        => \E i \in Positions(r, "write", "summary.json"),
              j \in Positions(r, "write", "meeting.json"),
              k \in Positions(r, "marker", "clear") : i < j /\ j < k

(***************************************************************************)
(* C5-C7: the chunk loop and the final synthesis.                          *)
(***************************************************************************)
\* The endpoint's answer at position j of r's log carried a text that is not
\* JSON of the requested shape, and generate_text handed that text back to
\* its caller (its status event went out).
UnparseableAnswer(r, j, tag) ==
    /\ EventIs(log[r][j], "response", tag)
    /\ log[r][j].data.ok
    /\ log[r][j].data.value.shape = "malformed"
    /\ j < Len(log[r])
    /\ EventIs(log[r][j + 1], "emit", "llm-progress")

ReturnedError(r, error, msg) ==
    /\ pc[r] = "done"
    /\ IsSome(result[r])
    /\ IsErr(Unwrap(result[r]), error)
    /\ Unwrap(result[r]).value = msg

NoFinalWrites(r) ==
    /\ Positions(r, "write", "summary.md") = {}
    /\ Positions(r, "write", "summary.json") = {}
    /\ Positions(r, "write", "meeting.json") = {}

FinalArtifacts(m) == <<files[m].summary_md, files[m].summary_json, files[m].name>>

RECURSIVE FoldAnswers(_, _, _, _)
FoldAnswers(r, from, n, key_facts) ==
    IF from > n THEN key_facts
    ELSE IF EventIs(log[r][from], "response", "chunk")
    THEN FoldAnswers(r, from + 1, n,
                     UpdateKeyFacts(key_facts, log[r][from].data.value.value))
    ELSE FoldAnswers(r, from + 1, n, key_facts)

\* C7: while a request awaits the answer to a chunk call, every chunk call
\* in its log (the one in flight is the last event) is the call for chunk c+1
\* where c chunk calls precede it, carries that chunk's text, comes after the
\* parseable answer to every earlier call, and embeds in its prompt the
\* KeyFact folded from exactly those answers (the empty KeyFact for the first
\* chunk); and at most one request awaits a chunk answer.
C7_ChunksSequentialAndThreaded ==
    /\ Cardinality({r \in Requests : pc[r] = "chunk_call"}) <= 1
    /\ \A r \in Requests :
         pc[r] = "chunk_call"
         => LET calls == Positions(r, "call", "chunk")
                responses == Positions(r, "response", "chunk")
            IN  /\ Len(log[r]) \in calls
                /\ \A j \in calls :
                     LET before == {c \in calls : c < j}
                         answers == {a \in responses : a < j}
                         i == Cardinality(before) + 1
                     IN  /\ log[r][j].idx = i
                         /\ log[r][j].data.user = run[r].chunks[i]
                         /\ \A c \in before :
                              \E a \in answers :
                                 /\ c < a
                                 /\ log[r][a].idx = log[r][c].idx
                                 /\ log[r][a].data.ok
                                 /\ log[r][a].data.value.shape = "FirstSummaryFormat"
                         /\ Cardinality(answers) = i - 1
                         /\ log[r][j].data.system.key_facts
                                = JsonText("KeyFact", FoldAnswers(r, 1, j - 1, EmptyKeyFact))

\* C7 witness: the call for the second chunk has been issued with a prompt
\* that embeds what the first chunk's answer said.
C7_Witness ==
    \E r \in Requests : \E j \in Positions(r, "call", "chunk") :
        /\ log[r][j].idx = 2
        /\ log[r][j].data.system.key_facts # JsonText("KeyFact", EmptyKeyFact)
        /\ pc[r] = "chunk_call"

(***************************************************************************)
(* The two KeyFact folds on their own: update_key_facts as summarize_chunks *)
(* applies it chunk after chunk, and combine_structured_first_summaries as *)
(* generate_final_summary applies it to the whole list.                    *)
(***************************************************************************)
\* `self.update_key_facts(&mut key_facts, &chunk_summary)` (summary.rs 222)
\* for the next chunk summary of the list.
FoldChunk ==
    /\ folded < Len(in_summaries)
    /\ acc_key_facts' = UpdateKeyFacts(acc_key_facts, in_summaries[folded + 1])
    /\ folded' = folded + 1
    /\ UNCHANGED <<in_summaries, merged, orchVars, segVars, cfgVars, trVars>>

\* `self.combine_structured_first_summaries(chunk_summaries)` (summary.rs 318).
MergeChunks ==
    /\ merged = None
    /\ merged' = Some(CombineStructuredFirstSummaries(in_summaries))
    /\ UNCHANGED <<in_summaries, folded, acc_key_facts, orchVars, segVars, cfgVars, trVars>>

NextFold == FoldChunk \/ MergeChunks

\* All sequences over `values` of length 0..n.
SeqsUpTo(values, n) == UNION {[1..k -> values] : k \in 0..n}

\* Option<String> values of a scalar KeyFact field.
ScalarValues == {None, Some("x"), Some("y")}

\* Chunk summaries that differ in their scalar KeyFact fields only.
ScalarChunks ==
    {FirstSummaryFormat(KeyFact(moderation, protocol, timekeeping, None), <<>>, None) :
        moderation \in ScalarValues, protocol \in ScalarValues, timekeeping \in ScalarValues}

InitScalars ==
    /\ InitOrch
    /\ InitCfgIdle
    /\ InitTrIdle
    /\ in_summaries \in SeqsUpTo(ScalarChunks, MaxFoldChunks)
    /\ folded = 0
    /\ acc_key_facts = EmptyKeyFact
    /\ merged = None
    /\ InitSegIdle

SpecScalars == InitScalars /\ [][NextFold]_vars

\* The attendees a chunk summary may list: one id under two names, and
\* another id.
AttendeeValues == {Attendee(1, "A"), Attendee(1, "B"), Attendee(2, "C")}

\* Chunk summaries that differ in their attendees only: no list, or a list of
\* up to MaxAttendees attendees, the same id possibly more than once.
AttendeeChunks ==
    {FirstSummaryFormat(KeyFact(None, None, None, attendees), <<>>, None) :
        attendees \in {None} \cup {Some(list) : list \in SeqsUpTo(AttendeeValues, MaxAttendees)}}

InitAttendees ==
    /\ InitOrch
    /\ InitCfgIdle
    /\ InitTrIdle
    /\ in_summaries \in SeqsUpTo(AttendeeChunks, MaxFoldChunks)
    /\ folded = 0
    /\ acc_key_facts = EmptyKeyFact
    /\ merged = None
    /\ InitSegIdle

SpecAttendees == InitAttendees /\ [][NextFold]_vars

(***************************************************************************)
(* C8-C10: what the folds compute.                                         *)
(***************************************************************************)
\* The attendee lists of a sequence of chunk summaries, concatenated in order.
RECURSIVE AllAttendees(_)
AllAttendees(summaries) ==
    IF summaries = <<>> THEN <<>>
    ELSE (IF IsSome(Head(summaries).key_facts.attendees)
          THEN Unwrap(Head(summaries).key_facts.attendees) ELSE <<>>)
         \o AllAttendees(Tail(summaries))

\* Union by id: of every id the first attendee met, in encounter order.
RECURSIVE FirstById(_, _)
FirstById(list, seen) ==
    IF list = <<>> THEN <<>>
    ELSE IF Head(list).id \in seen THEN FirstById(Tail(list), seen)
    ELSE <<Head(list)>> \o FirstById(Tail(list), seen \cup {Head(list).id})

UnionById(summaries) ==
    IF \A i \in 1..Len(summaries) : ~IsSome(summaries[i].key_facts.attendees)
    THEN None
    ELSE Some(FirstById(AllAttendees(summaries), {}))

\* C8 as stated: after every step of the incremental fold, and in the merged
\* summary, the attendees are the union by id of the lists folded so far:
\* first-seen name kept, new ids appended in encounter order.
C8_AttendeesUnionById ==
    /\ acc_key_facts.attendees = UnionById(SubSeq(in_summaries, 1, folded))
    /\ IsSome(merged) => Unwrap(merged).key_facts.attendees = UnionById(in_summaries)

ScalarFields == {"moderation", "protocol", "timekeeping"}

ScalarOf(key_facts, field) ==
    CASE field = "moderation" -> key_facts.responisible_for_moderation
      [] field = "protocol" -> key_facts.responisible_for_protocol
      [] field = "timekeeping" -> key_facts.responisible_for_timekeeping

\* The field's value in the last summary of the sequence that gives one.
LastNonNull(summaries, field) ==
    LET given == {i \in 1..Len(summaries) : IsSome(ScalarOf(summaries[i].key_facts, field))}
    IN  IF given = {} THEN None
        ELSE ScalarOf(summaries[CHOOSE i \in given : \A j \in given : j <= i].key_facts, field)

\* C9: for each scalar field, the running KeyFact after folding the first
\* `folded` chunk summaries, and the merged summary of all of them, hold the
\* value of the last summary in order whose field is non-null, and null only
\* if every summary's field is null.
C9_ScalarsLastNonNullWins ==
    \A field \in ScalarFields :
        /\ ScalarOf(acc_key_facts, field)
              = LastNonNull(SubSeq(in_summaries, 1, folded), field)
        /\ IsSome(merged)
              => ScalarOf(Unwrap(merged).key_facts, field) = LastNonNull(in_summaries, field)

\* C9 witness: a later chunk's null moderator followed an earlier chunk's
\* moderator; both folds have run and kept the earlier value.
C9_Witness ==
    /\ Len(in_summaries) = 2
    /\ folded = 2
    /\ in_summaries[1].key_facts.responisible_for_moderation = Some("x")
    /\ in_summaries[2].key_facts.responisible_for_moderation = None
    /\ in_summaries[2].key_facts.responisible_for_protocol = Some("y")
    /\ acc_key_facts.responisible_for_moderation = Some("x")
    /\ IsSome(merged)
    /\ Unwrap(merged).key_facts.responisible_for_moderation = Some("x")

DistinctIds(attendees) ==
    IsSome(attendees)
    => \A i, j \in 1..Len(Unwrap(attendees)) :
          i # j => Unwrap(attendees)[i].id # Unwrap(attendees)[j].id

\* C10 as stated: attendee ids are pairwise distinct in the running KeyFact
\* after each fold step and in the merged summary's KeyFact, whatever the
\* chunk summaries list.
C10_AttendeeIdsDistinct ==
    /\ DistinctIds(acc_key_facts.attendees)
    /\ IsSome(merged) => DistinctIds(Unwrap(merged).key_facts.attendees)

(***************************************************************************)
(* C11-C12: topics and todos of the mechanical merge.                      *)
(***************************************************************************)
\* Longest topic list, and longest todo list, of a single chunk summary.
MaxTopics == 2

MaxTodos == 2

\* Two topics with the same title and different content.
TopicValues ==
    {Topic("Budget", <<"approved">>, None), Topic("Budget", <<"revisited">>, None)}

\* Chunk summaries that differ in their topics only.
TopicChunks ==
    {FirstSummaryFormat(EmptyKeyFact, topics, None) :
        topics \in SeqsUpTo(TopicValues, MaxTopics)}

InitTopics ==
    /\ InitOrch
    /\ InitCfgIdle
    /\ InitTrIdle
    /\ in_summaries \in SeqsUpTo(TopicChunks, MaxFoldChunks)
    /\ folded = 0
    /\ acc_key_facts = EmptyKeyFact
    /\ merged = None
    /\ InitSegIdle

SpecTopics == InitTopics /\ [][NextFold]_vars

TodoValues == {ToDo(None, "send minutes"), ToDo(Some(<<"Bob">>), "book room")}

\* Chunk summaries that differ in their todos only: absent, or a list of up
\* to MaxTodos todos (possibly empty).
TodoChunks ==
    {FirstSummaryFormat(EmptyKeyFact, <<>>, todos) :
        todos \in {None} \cup {Some(list) : list \in SeqsUpTo(TodoValues, MaxTodos)}}

InitTodos ==
    /\ InitOrch
    /\ InitCfgIdle
    /\ InitTrIdle
    /\ in_summaries \in SeqsUpTo(TodoChunks, MaxFoldChunks)
    /\ folded = 0
    /\ acc_key_facts = EmptyKeyFact
    /\ merged = None
    /\ InitSegIdle

SpecTodos == InitTodos /\ [][NextFold]_vars

\* Number of topics in the first n chunk summaries.
RECURSIVE TopicsBefore(_, _)
TopicsBefore(summaries, n) ==
    IF n = 0 THEN 0 ELSE TopicsBefore(summaries, n - 1) + Len(summaries[n].topics)

\* C11: the merged summary's topics are the chunks' topics in chunk order:
\* there are as many as the chunks have together, and the k-th topic of chunk
\* i sits, unchanged, right after all topics of the chunks before i, also
\* when titles coincide.
C11_TopicsConcatenated ==
    IsSome(merged)
    => /\ Len(Unwrap(merged).topics) = TopicsBefore(in_summaries, Len(in_summaries))
       /\ \A i \in 1..Len(in_summaries) : \A k \in 1..Len(in_summaries[i].topics) :
            Unwrap(merged).topics[TopicsBefore(in_summaries, i - 1) + k]
                = in_summaries[i].topics[k]

\* C11 witness: two chunks with a same-titled topic each have been merged
\* and both topics are there.
C11_Witness ==
    /\ IsSome(merged)
    /\ Len(in_summaries) = 2
    /\ Len(in_summaries[1].topics) = 1
    /\ Len(in_summaries[2].topics) = 2
    /\ in_summaries[1].topics[1].title = in_summaries[2].topics[1].title
    /\ in_summaries[1].topics[1] # in_summaries[2].topics[1]
    /\ Len(Unwrap(merged).topics) = 3

\* The todo lists of the summaries that have one, concatenated in order.
RECURSIVE AllTodos(_)
AllTodos(summaries) ==
    IF summaries = <<>> THEN <<>>
    ELSE (IF Head(summaries).todos = None THEN <<>> ELSE Head(summaries).todos[1])
         \o AllTodos(Tail(summaries))

\* C12: the merged todos are absent exactly when every chunk's todos are
\* absent; otherwise they are the chunks' todo lists concatenated in chunk
\* order (a present but empty list makes them present).
C12_TodosPresentIffAnyPresent ==
    IsSome(merged)
    => /\ Unwrap(merged).todos = None
            <=> \A i \in 1..Len(in_summaries) : in_summaries[i].todos = None
       /\ Unwrap(merged).todos # None
            => Unwrap(merged).todos = <<AllTodos(in_summaries)>>

\* C12 witness: the only chunk with todos has an empty list, and the merged
\* todos are present and empty.
C12_Witness ==
    /\ IsSome(merged)
    /\ Len(in_summaries) = 2
    /\ in_summaries[1].todos = None
    /\ in_summaries[2].todos = Some(<<>>)
    /\ Unwrap(merged).todos = Some(<<>>)

(***************************************************************************)
(* split_text_into_chunks (llm/text_processing.rs).                        *)
(*                                                                         *)
(* A text is the sequence of its characters, each a one-character string;  *)
(* "U+20AC" stands for the euro sign, a character of three UTF-8 bytes.    *)
(***************************************************************************)
\* Longest text given to the segmenter, and largest max_chars.
MaxTextLen == 5

MaxChars == 4

\* The characters texts are drawn from: a letter, a three-byte character,
\* the two whitespace characters the break rules look for, and a terminator.
Alphabet == {"a", "U+20AC", " ", "\n", "."}

\* char::len_utf8
Utf8Len(c) == IF c = "U+20AC" THEN 3 ELSE 1

\* str::len: the length in bytes.
RECURSIVE ByteLen(_)
ByteLen(chars) ==
    IF chars = <<>> THEN 0 ELSE Utf8Len(Head(chars)) + ByteLen(Tail(chars))

\* char::is_whitespace
IsWhitespace(c) == c \in {" ", "\n", "\t"}

\* str::trim_end and str::trim
RECURSIVE TrimEnd(_)
TrimEnd(chars) ==
    IF chars # <<>> /\ IsWhitespace(chars[Len(chars)])
    THEN TrimEnd(SubSeq(chars, 1, Len(chars) - 1))
    ELSE chars

RECURSIVE Trim(_)
Trim(chars) ==
    IF chars # <<>> /\ IsWhitespace(Head(chars)) THEN Trim(Tail(chars))
    ELSE TrimEnd(chars)

\* str::rfind(pattern): the byte offset of the last occurrence, if any.
RFind(chars, pattern) ==
    LET found == {i \in 0..(Len(chars) - Len(pattern)) :
                      SubSeq(chars, i + 1, i + Len(pattern)) = pattern}
    IN  IF found = {} THEN None
        ELSE Some(ByteLen(SubSeq(chars, 1, CHOOSE i \in found : \A j \in found : j <= i)))

\* Option::or_else
OrElse(first, second) == IF IsSome(first) THEN first ELSE second

\* find_sentence_end (lines 52-57)
FindSentenceEnd(chars) ==
    OrElse(RFind(chars, <<".", " ">>),
    OrElse(RFind(chars, <<".", "\n">>),
    OrElse(RFind(chars, <<"?", " ">>),
           RFind(chars, <<"!", " ">>))))

\* `chunk_text.chars().take(n).collect::<String>().chars().count()`; a
\* variant that takes one character less, as `take(offset)` would.
TakeCountBefore(chars, n) == IF n - 1 < Len(chars) THEN n - 1 ELSE Len(chars)

TakeCount(chars, n) == IF n < Len(chars) THEN n ELSE Len(chars)

\* find_optimal_break_point (lines 28-50): `start` and `max_end` count
\* characters, the offsets rfind returns count bytes.
FindOptimalBreakPoint(chars, start, max_end) ==
    LET chunk_text == SubSeq(chars, start + 1, max_end)
        sentence_end == FindSentenceEnd(chunk_text)
        para_break == RFind(chunk_text, <<"\n", "\n">>)
        space == RFind(chunk_text, <<" ">>)
    IN  IF IsSome(sentence_end)
        THEN start + TakeCount(chunk_text, Unwrap(sentence_end) + 1)
        ELSE IF IsSome(para_break)
        THEN start + TakeCount(chunk_text, Unwrap(para_break) + 2)
        ELSE IF IsSome(space)
        THEN start + TakeCount(chunk_text, Unwrap(space) + 1)
        ELSE max_end

\* `text.chars().count() <= max_chars` (line 3); a variant with `<`.
FitsStrictly(chars, max_chars) == Len(chars) < max_chars

Fits(chars, max_chars) == Len(chars) <= max_chars

\* `min(current_pos + max_chars, chars.len())` (line 12); a variant whose
\* window is one character too long.
EndPosInclusive(current_pos, max_chars, len) ==
    IF current_pos + max_chars + 1 < len THEN current_pos + max_chars + 1 ELSE len

EndPos(current_pos, max_chars, len) ==
    IF current_pos + max_chars < len THEN current_pos + max_chars ELSE len

\* Lines 20-21: the slice, trimmed; a variant that starts one character early.
SliceChunkOverlapping(chars, current_pos, break_pos) ==
    Trim(SubSeq(chars, IF current_pos > 0 THEN current_pos ELSE 1, break_pos))

SliceChunk(chars, current_pos, break_pos) ==
    Trim(SubSeq(chars, current_pos + 1, break_pos))

\* Lines 3-9: the early return, or the loop's start.
SplitStart ==
    /\ seg_pc = "start"
    /\ IF Fits(seg_text, seg_max_chars)
       THEN seg_chunks' = <<seg_text>> /\ seg_pc' = "done"
       ELSE seg_chunks' = <<>> /\ seg_pc' = "loop"
    /\ UNCHANGED <<seg_text, seg_max_chars, seg_current_pos, seg_windows,
                   orchVars, foldVars, cfgVars, trVars>>

\* One iteration of the while loop (lines 11-23) and the test that follows.
SplitIterate ==
    /\ seg_pc = "loop"
    /\ seg_current_pos < Len(seg_text)
    /\ LET end_pos == EndPos(seg_current_pos, seg_max_chars, Len(seg_text))
           break_pos == IF end_pos < Len(seg_text)
                        THEN FindOptimalBreakPoint(seg_text, seg_current_pos, end_pos)
                        ELSE end_pos
       IN  /\ seg_chunks' = Append(seg_chunks,
                                   SliceChunk(seg_text, seg_current_pos, break_pos))
           /\ seg_windows' = Append(seg_windows,
                                    [start |-> seg_current_pos, end_pos |-> end_pos,
                                     break_pos |-> break_pos])
           /\ seg_current_pos' = break_pos
           /\ seg_pc' = IF break_pos < Len(seg_text) THEN "loop" ELSE "done"
    /\ UNCHANGED <<seg_text, seg_max_chars, orchVars, foldVars, cfgVars, trVars>>

NextSegment == SplitStart \/ SplitIterate

InitSegment ==
    /\ InitOrch
    /\ InitCfgIdle
    /\ InitTrIdle
    /\ InitFoldIdle
    /\ seg_pc = "start"
    /\ seg_text \in SeqsUpTo(Alphabet, MaxTextLen)
    /\ seg_max_chars \in 1..MaxChars
    /\ seg_current_pos = 0
    /\ seg_chunks = <<>>
    /\ seg_windows = <<>>

SpecSegment == InitSegment /\ [][NextSegment]_vars

(***************************************************************************)
(* C13-C19: what the segmenter returns.                                    *)
(***************************************************************************)
\* C13: every chunk the segmenter has produced, for every text and every
\* max_chars >= 1, has at most max_chars characters.
C13_ChunksWithinMaxChars ==
    \A i \in 1..Len(seg_chunks) : Len(seg_chunks[i]) <= seg_max_chars

\* C13 witness: a text longer than max_chars, with a multi-byte character,
\* has been split into several chunks, one of them of exactly max_chars
\* characters.
C13_Witness ==
    /\ seg_pc = "done"
    /\ Len(seg_text) > seg_max_chars
    /\ seg_max_chars >= 2
    /\ Len(seg_chunks) >= 2
    /\ \E i \in 1..Len(seg_text) : seg_text[i] = "U+20AC"
    /\ \E i \in 1..Len(seg_chunks) : Len(seg_chunks[i]) = seg_max_chars

\* The trimmed forms of the consecutive slices of `chars` that start at
\* character offset `from` and are cut at the offsets in `cuts`.
RECURSIVE TrimmedSlices(_, _, _)
TrimmedSlices(chars, from, cuts) ==
    IF cuts = {}
    THEN <<Trim(SubSeq(chars, from + 1, Len(chars)))>>
    ELSE LET cut == CHOOSE c \in cuts : \A d \in cuts : c <= d
         IN  <<Trim(SubSeq(chars, from + 1, cut))>>
             \o TrimmedSlices(chars, cut, cuts \ {cut})

WhitespaceOnly(chars) == \A i \in 1..Len(chars) : IsWhitespace(chars[i])

\* C16 as stated: an empty or whitespace-only text that fits within
\* max_chars comes back as exactly one chunk, the trimmed form of the text:
\* the empty string.
C16_WhitespaceTextTrimmed ==
    (seg_pc = "done" /\ WhitespaceOnly(seg_text) /\ Len(seg_text) <= seg_max_chars)
    => seg_chunks = << <<>> >>

\* C17 as stated: for a text that is neither empty nor whitespace-only, no
\* chunk produced is the empty string.
C17_NoEmptyChunk ==
    ~WhitespaceOnly(seg_text)
    => \A i \in 1..Len(seg_chunks) : seg_chunks[i] # <<>>

\* Character i of the text is a sentence terminator followed by the
\* whitespace that makes it a separator (". ", ".\n", "? ", "! ").
SentenceSeparatorAt(chars, i) ==
    \/ chars[i] = "." /\ chars[i + 1] \in {" ", "\n"}
    \/ chars[i] \in {"?", "!"} /\ chars[i + 1] = " "

\* Where, counted in characters, the separators of each kind lie wholly
\* inside the window.
SentenceSeparatorsIn(chars, w) ==
    {i \in (w.start + 1)..(w.end_pos - 1) : SentenceSeparatorAt(chars, i)}

ParagraphBreaksIn(chars, w) ==
    {i \in (w.start + 1)..(w.end_pos - 1) : chars[i] = "\n" /\ chars[i + 1] = "\n"}

SpacesIn(chars, w) == {i \in (w.start + 1)..w.end_pos : chars[i] = " "}

Latest(positions) == CHOOSE i \in positions : \A j \in positions : j <= i

\* C18 as stated: a window that reaches the end of the text is emitted
\* whole; otherwise the break is right after the terminator of a sentence
\* separator if the window has one, else right after the latest paragraph
\* break if it has one, else right after the latest space if it has one,
\* else at the window's edge.
C18_BreakPriorityOrder ==
    \A n \in 1..Len(seg_windows) :
        LET w == seg_windows[n]
            sentences == SentenceSeparatorsIn(seg_text, w)
            paragraphs == ParagraphBreaksIn(seg_text, w)
            spaces == SpacesIn(seg_text, w)
        IN  IF w.end_pos = Len(seg_text) THEN w.break_pos = Len(seg_text)
            ELSE IF sentences # {} THEN w.break_pos \in sentences
            ELSE IF paragraphs # {} THEN w.break_pos = Latest(paragraphs) + 1
            ELSE IF spaces # {} THEN w.break_pos = Latest(spaces)
            ELSE w.break_pos = w.end_pos

\* C19 as stated: the chunk emitted for a window that does not reach the end
\* of the text and contains a sentence separator ends with '.', '?' or '!'.
C19_SentenceChunkEndsWithTerminator ==
    \A n \in 1..Len(seg_windows) :
        LET w == seg_windows[n] IN
        (w.end_pos < Len(seg_text) /\ SentenceSeparatorsIn(seg_text, w) # {})
        => /\ seg_chunks[n] # <<>>
           /\ seg_chunks[n][Len(seg_chunks[n])] \in {".", "?", "!"}

(***************************************************************************)
(* C20: the transcript fetch.                                              *)
(***************************************************************************)
ChunkArtifacts(m) ==
    <<files[m].chunk_txt, files[m].chunk_summary, files[m].all_chunk_summaries>>

\* C20: when the transcript store gave generate_summary an empty transcript,
\* or none, the request has returned FileError and did nothing after the
\* fetch: it never segmented, called the model or wrote anything, and no
\* chunk artifact of any meeting has changed.
C20_EmptyTranscriptIsFileError ==
    \A r \in Requests : \A j \in Positions(r, "read", "transcript") :
        (~log[r][j].data.ok \/ log[r][j].data.len = 0)
        => /\ pc[r] = "done"
           /\ IsErr(Unwrap(result[r]), "FileError")
           /\ Len(log[r]) = j
           /\ run[r].chunks = <<>>
           /\ \A k \in 1..Len(log[r]) : log[r][k].ev \notin {"call", "write"}
           /\ \A m \in Meetings :
                ChunkArtifacts(m) = <<InitFiles[m].chunk_txt, InitFiles[m].chunk_summary,
                                      InitFiles[m].all_chunk_summaries>>

\* C20 witness: generate_summary has failed on a transcript that was read
\* and is empty.
C20_Witness ==
    \E r \in Requests : \E j \in Positions(r, "read", "transcript") :
        /\ log[r][j].data.ok
        /\ log[r][j].data.len = 0
        /\ ReturnedError(r, "FileError", "No transcript to summarize")

(***************************************************************************)
(* C21: the choice between the direct and the chunked path.                *)
(***************************************************************************)
\* The request has run some part of the chunked path: it has segmented,
\* called the model, or written a chunk artifact.
RanChunkedPath(r) ==
    \/ run[r].chunks # <<>>
    \/ Positions(r, "read", "llm_config") # {}
    \/ \E k \in 1..Len(log[r]) : log[r][k].ev \in {"call", "write"}

\* C21: generate_summary runs the chunked path only for a transcript longer
\* than 10,000 characters; for a non-empty transcript of at most 10,000
\* characters it segments nothing, calls nothing and writes nothing, and
\* returns the "unsupported" ConfigError; and a transcript longer than 10,000
\* characters is never answered with that error.
C21_ChunkedIffLongerInCharacters ==
    \A r \in Requests : \A j \in Positions(r, "read", "transcript") :
        LET read == log[r][j].data IN
        (read.ok /\ read.chars > 0)
        => IF read.chars <= DirectThreshold
           THEN /\ ~RanChunkedPath(r)
                /\ ReturnedError(r, "ConfigError", "Direct summarization not implemented yet")
           ELSE ~ReturnedError(r, "ConfigError", "Direct summarization not implemented yet")

(***************************************************************************)
(* C22-C23: best-effort and required writes.                               *)
(***************************************************************************)
SideArtifactFailures ==
    {"Failed to save chunk " \o ToString(n) : n \in ChunkIndices}
    \cup {"Failed to save chunk summary " \o ToString(n) : n \in ChunkIndices}
    \cup {"Failed to save all chunk summaries"}

\* C22 as stated: a failed write of a chunk's text, of a chunk's summary or of
\* the file of all chunk summaries is swallowed: no request ever returns the
\* error of such a write to its caller.
C22_SideArtifactFailureSwallowed ==
    \A r \in Requests : \A msg \in SideArtifactFailures :
        ~ReturnedError(r, "FileError", msg)

\* Where r's log holds the completion message of its command.
CompletionPositions(r) ==
    {j \in Positions(r, "emit", "llm-progress") :
        log[r][j].data \in {"Summary completed", "Final summary regenerated"}}

\* C23: only a run whose final summary was generated reaches the required
\* writes or reports success; for such a run the two files of the final
\* summary and the meeting title are written at most once each and in this
\* order, the title write is reached only after both summary files were
\* written, and the completion message comes only after all three; if the
\* run has returned without one of the three writes it has returned the
\* FileError of the first write that is missing, and if it reports success
\* it has made all three.
C23_RequiredWritesAreFatal ==
    \A r \in Requests :
        /\ (pc[r] = "done" /\ Unwrap(result[r]).ok) => IsSome(run[r].content)
        /\ pc[r] \in {"save_md", "save_json", "save_meta"} => IsSome(run[r].content)
        /\ IsSome(run[r].content) =>
            LET md == Positions(r, "write", "summary.md")
                json == Positions(r, "write", "summary.json")
                meta == Positions(r, "write", "meeting.json")
                completed == CompletionPositions(r)
            IN
            /\ Cardinality(md) <= 1 /\ Cardinality(json) <= 1 /\ Cardinality(meta) <= 1
            /\ \A j \in json : \E i \in md : i < j
            /\ \A j \in meta : \E i \in json : i < j
            /\ \A j \in completed : \E i \in meta : i < j
            /\ pc[r] = "save_json" => md # {}
            /\ pc[r] = "save_meta" => md # {} /\ json # {}
            /\ pc[r] = "done"
               => /\ md = {}
                     => ReturnedError(r, "FileError", "Failed to save summary markdown")
                  /\ (md # {} /\ json = {})
                     => ReturnedError(r, "FileError", "Failed to save summary JSON")
                  /\ (json # {} /\ meta = {})
                     => ReturnedError(r, "FileError", "Failed to write metadata")
                  /\ Unwrap(result[r]).ok => md # {} /\ json # {} /\ meta # {}

\* C23 witness: the final summary was written in full and the write of the
\* meeting title failed; the request has returned its FileError.
C23_Witness ==
    \E r \in Requests :
        /\ ReturnedError(r, "FileError", "Failed to write metadata")
        /\ Positions(r, "write", "summary.json") # {}
        /\ Positions(r, "write", "meeting.json") = {}

(***************************************************************************)
(* C24: the calls of the inference endpoint.                               *)
(***************************************************************************)
IsCall(e) == e.ev = "call"

IsResponse(e) == e.ev = "response"

\* The endpoint calls of a request, in the order they were issued.
CallsOf(r) == SelectSeq(log[r], IsCall)

\* The calls a chunked run over n chunks issues when nothing fails.
ExpectedCalls(n) ==
    [j \in 1..(n + 1) |-> IF j <= n THEN <<"chunk", j>> ELSE <<"final", 0>>]

RequestedShape(e) ==
    IF e.tag = "chunk" THEN "FirstSummaryFormat" ELSE "FinalSummaryFormat"

AwaitsEndpoint(r) == pc[r] \in {"chunk_call", "final_call"}

\* C26 as stated: a run that waits for the endpoint's answer does not depend
\* on the answer to go on: the program has a step of its own (the expiry of
\* the per-call timeout, which abandons the call) that it can take while the
\* endpoint stays silent.
C26_EndpointCallIsBounded ==
    \A r \in Requests : AwaitsEndpoint(r) => ENABLED ProgramStep

(***************************************************************************)
(* C27: failed emissions.                                                  *)
(***************************************************************************)
EmissionFailures ==
    {"Failed to emit summarization-started", "Failed to emit summarization-chunk-start",
     "Failed to emit progress", "Failed to emit API status", "Failed to emit timing stats"}

\* C27 as stated: a progress or lifecycle event that cannot be emitted never
\* surfaces to the caller: no request returns the error of a failed emission.
C27_EmissionFailureIsNotFatal ==
    \A r \in Requests : \A msg \in EmissionFailures :
        ~ReturnedError(r, "NetworkError", msg)

(***************************************************************************)
(* A caller that builds a configuration with the with_* methods and        *)
(* validates it (config.rs, `tests` 89-133).                               *)
(***************************************************************************)
Configs ==
    {LlmConfig(TRUE, e, m, c, n, t) :
        e \in Endpoints, m \in Models, c \in ChunkSizes, n \in RetryValues,
        t \in TimeoutValues}

\* config.validate()
CallValidate ==
    /\ validated' = Some(Validate(built))
    /\ last_call' = [field |-> "validate", value |-> 0]
    /\ UNCHANGED <<built, pristine, llm_config, orchVars, foldVars, segVars, trVars>>

\* config = config.with_chunk_size(n)
CallWithChunkSize ==
    \E n \in ChunkSizes :
        /\ built' = WithChunkSize(built, n)
        /\ last_call' = [field |-> "chunk_size", value |-> n]
        /\ pristine' = (pristine /\ n \in 1..MaxChunkSize)
        /\ validated' = None
        /\ UNCHANGED <<llm_config, orchVars, foldVars, segVars, trVars>>

\* config = config.with_timeout(t)
CallWithTimeout ==
    \E t \in TimeoutValues :
        /\ built' = WithTimeout(built, t)
        /\ last_call' = [field |-> "timeout_seconds", value |-> t]
        /\ pristine' = (pristine /\ t \in 1..MaxTimeoutSeconds)
        /\ validated' = None
        /\ UNCHANGED <<llm_config, orchVars, foldVars, segVars, trVars>>

\* config = config.with_retries(n)
CallWithRetries ==
    \E n \in RetryValues :
        /\ built' = WithRetries(built, n)
        /\ last_call' = [field |-> "max_retries", value |-> n]
        /\ validated' = None
        /\ UNCHANGED <<pristine, llm_config, orchVars, foldVars, segVars, trVars>>

NextConfig == CallValidate \/ CallWithChunkSize \/ CallWithTimeout \/ CallWithRetries

\* The caller starts from any configuration; `pristine` marks the ones that
\* are LlmConfig::default() changed only by in-range with_* calls.
InitConfig ==
    /\ InitOrch
    /\ InitFoldIdle
    /\ InitSegIdle
    /\ InitTrIdle
    /\ llm_config = DefaultConfig
    /\ built \in Configs
    /\ validated = None
    /\ last_call = [field |-> "", value |-> 0]
    /\ pristine = (built = DefaultConfig)

SpecConfig == InitConfig /\ [][NextConfig]_vars

(***************************************************************************)
(* C29: what validate accepts, and what the builders change.               *)
(***************************************************************************)
HasPrefix(s, p) == Len(s) >= Len(p) /\ \A i \in 1..Len(p) : s[i] = p[i]

Acceptable(config) ==
    /\ Len(config.external_endpoint) >= 1
    /\ \/ HasPrefix(config.external_endpoint, <<"h", "t", "t", "p", ":", "/", "/">>)
       \/ HasPrefix(config.external_endpoint, <<"h", "t", "t", "p", "s", ":", "/", "/">>)
    /\ Len(config.external_model) >= 1
    /\ 1 <= config.chunk_size /\ config.chunk_size <= 50000
    /\ 1 <= config.timeout_seconds /\ config.timeout_seconds <= 3600

OtherFieldsKept(field) ==
    \A f \in DOMAIN built : f # field => built'[f] = built[f]

\* C29: validate returns Ok exactly when the endpoint is non-empty and starts
\* with http:// or https://, the model is non-empty, 1 <= chunk_size <= 50,000
\* and 1 <= timeout_seconds <= 3600, and an error otherwise; the default
\* configuration validates; a default configuration changed only through
\* in-range with_* calls validates; and each with_* call sets its own field
\* to the given value and leaves every other field as it was.
C29_ValidateAcceptsExactlyTheConstraints ==
    /\ [](/\ IsSome(validated) => (Unwrap(validated).ok <=> Acceptable(built))
          /\ IsSome(validated) /\ ~Unwrap(validated).ok => Unwrap(validated).value # ""
          /\ built = DefaultConfig /\ IsSome(validated) => Unwrap(validated).ok
          /\ pristine /\ IsSome(validated) => Unwrap(validated).ok)
    /\ [][/\ last_call'.field \in {"chunk_size", "timeout_seconds", "max_retries"}
             => /\ built'[last_call'.field] = last_call'.value
                /\ OtherFieldsKept(last_call'.field)
          /\ last_call'.field = "validate" => built' = built]_vars

\* C29 witness: the default configuration, changed to chunk size 15,000,
\* timeout 300 and 5 retries, has been validated and accepted.
C29_Witness ==
    /\ pristine
    /\ built = LlmConfig(TRUE, DefaultEndpoint, DefaultModel, 15000, 5, 300)
    /\ validated = Some(Valid)

(***************************************************************************)
(* set_llm_config (lib.rs 129-147) beside one run of the pipeline.         *)
(***************************************************************************)
\* The endpoints the command is invoked with: empty, "not-a-url", the default.
EndpointsSet ==
    {e \in Endpoints : Len(e) = 0 \/ e = DefaultEndpoint \/ e[1] = "n"}

\* The command takes the mutex, stores its three arguments with the fixed
\* chunk size, retries and timeout, and drops the mutex; it checks nothing.
SetLlmConfig ==
    /\ MutexFree
    /\ \E use_external_api \in BOOLEAN, external_endpoint \in EndpointsSet,
          external_model \in Models :
         llm_config' = LlmConfig(use_external_api, external_endpoint, external_model,
                                 10000, 3, 120)
    /\ UNCHANGED <<orchVars, foldVars, segVars, built, validated, last_call, pristine, trVars>>

NextConfigured == NextRun \/ SetLlmConfig

SpecConfigured == Init /\ [][NextConfigured]_vars

(***************************************************************************)
(* C28: is the configuration validated before the pipeline uses it.        *)
(***************************************************************************)
ConfigsRead(r) == {log[r][i].data : i \in Positions(r, "read", "llm_config")}

\* C28: the stored configuration always satisfies validate, and a run that
\* read a configuration violating a constraint has segmented nothing, has
\* called the model endpoint not once, and ends with ConfigError.
C28_ConfigValidatedBeforeUse ==
    /\ Validate(llm_config).ok
    /\ \A r \in Requests :
         \A config \in ConfigsRead(r) :
            ~Validate(config).ok =>
                /\ run[r].chunks = <<>>
                /\ Positions(r, "call", "chunk") = {}
                /\ Positions(r, "call", "final") = {}
                /\ pc[r] = "done" =>
                       /\ ~Unwrap(result[r]).ok
                       /\ Unwrap(result[r]).error = "ConfigError"

(***************************************************************************)
(* One run of the pipeline on a transcript of LongTextLen blocks, with     *)
(* split_text_into_chunks (text_processing.rs 2-26) computed in full.      *)
(***************************************************************************)
\* The while loop, from current_pos to the end of the text.
RECURSIVE SplitFrom(_, _, _)
SplitFrom(chars, max_chars, current_pos) ==
    IF current_pos >= Len(chars) THEN <<>>
    ELSE LET end_pos == EndPos(current_pos, max_chars, Len(chars))
             break_pos == IF end_pos < Len(chars)
                          THEN FindOptimalBreakPoint(chars, current_pos, end_pos)
                          ELSE end_pos
         IN  <<SliceChunk(chars, current_pos, break_pos)>>
             \o SplitFrom(chars, max_chars, break_pos)

SplitTextIntoChunks(text, max_chars) ==
    IF Fits(text, max_chars) THEN <<text>> ELSE SplitFrom(text, max_chars, 0)

LongTexts ==
    {t \in [1..LongTextLen -> {"a", " "}] :
        Cardinality({i \in 1..LongTextLen : t[i] = " "}) <= MaxSpaces}

\* The stored transcript: LongTextLen * BlockLen one-byte characters.
LongTranscript(t) ==
    Transcript(Len(t) * BlockLen, Len(t) * BlockLen, SplitTextIntoChunks(t, LongChunkSize))

LongTranscripts == {LongTranscript(t) : t \in LongTexts}

FetchLongTranscript == FetchTranscriptFrom(1, LongTranscripts)

NextEndToEnd ==
    \/ Invoke(1)
    \/ CheckAndSetTest(1)
    \/ CheckAndSetSet(1)
    \/ FetchLongTranscript
    \/ ReadChunkSummaries(1)
    \/ GetLlmConfig(1)
    \/ ChunkBegin(1)
    \/ ChunkResponse(1)
    \/ SaveChunk(1)
    \/ SaveChunkSummary(1)
    \/ SaveAllChunkSummaries(1)
    \/ FinalBegin(1)
    \/ FinalResponse(1)
    \/ SaveSummaryMarkdown(1)
    \/ SaveSummaryJson(1)
    \/ SaveMeetingMetadata(1)
    \/ ResetSummarizationState(1)

SpecEndToEnd == Init /\ [][NextEndToEnd]_vars

(***************************************************************************)
(* C30: chunk-summary artifacts of a chunked run.                          *)
(***************************************************************************)
IsChunkSummaryWrite(e) == EventIs(e, "write", "chunk_summary")

ChunkSummaryWrites(r) == SelectSeq(log[r], IsChunkSummaryWrite)

SucceededChunked(r) ==
    /\ pc[r] = "done"
    /\ req[r].command = "generate_summary"
    /\ Unwrap(result[r]).ok

OneArtifactPerChunk(r) ==
    LET writes == ChunkSummaryWrites(r)
        n == Len(run[r].chunks)
    IN  /\ Len(writes) = n
        /\ \A i \in 1..n :
             /\ writes[i].idx = i
             /\ IsSome(files[MeetingOf(r)].chunk_summary[i])

IsEmit(e) == e.ev = "emit"

EmitsOf(r) == SelectSeq(log[r], IsEmit)

\* The completion messages of generate_summary and regenerate_final_summary.
IsCompletionEvent(e) ==
    /\ EventIs(e, "emit", "llm-progress")
    /\ e.data \in {"Summary completed", "Final summary regenerated"}

\* The topics the program emits on are summarization-started,
\* summarization-chunk-start, summarization-chunk-progress and llm-progress;
\* a failure event is an emission on any other topic.
IsFailureEvent(e) ==
    /\ IsEmit(e)
    /\ e.tag \notin {"summarization-started", "summarization-chunk-start",
                     "summarization-chunk-progress", "llm-progress"}

IsTerminalEvent(e) == IsCompletionEvent(e) \/ IsFailureEvent(e)

Accepted(r) == Positions(r, "marker", "set") # {}

\* C31: an accepted run that has returned emitted a start event before any
\* other event, and exactly one terminal event, as its last event: the
\* completion event if it succeeded, a failure event if it failed; and the
\* completion event follows the writes of the final summary and the title.
C31_LifecycleEventsInOrder ==
    \A r \in Requests :
        Accepted(r) /\ pc[r] = "done" =>
            LET emits == EmitsOf(r)
                terminal == SelectSeq(emits, IsTerminalEvent)
            IN  /\ Len(emits) >= 1
                /\ emits[1].tag = "summarization-started"
                /\ Len(terminal) = 1
                /\ IsTerminalEvent(emits[Len(emits)])
                /\ Unwrap(result[r]).ok <=> IsCompletionEvent(terminal[1])
                /\ \A i \in 1..Len(log[r]) :
                     IsCompletionEvent(log[r][i]) =>
                        /\ \E j \in Positions(r, "write", "summary.json") : j < i
                        /\ \E j \in Positions(r, "write", "meeting.json") : j < i

(***************************************************************************)
(* C32: what a returned error says about the stage that failed.            *)
(***************************************************************************)
\* The positions of a run inside the processing of one chunk, and inside the
\* merge and final synthesis.
ChunkStages == {"chunk", "chunk_call", "save_chunk", "save_chunk_summary"}

FinalStages == {"final", "final_call"}

\* A message names chunk k when it ends in k's number.
MessageHeads ==
    {"Failed to save chunk ", "Failed to save chunk summary ",
     "Failed to send request to Ollama", "Failed to parse Ollama response",
     "Failed to parse chunk summary JSON", "Failed to parse final summary JSON",
     "Failed to emit progress", "Failed to emit API status"}

NamesChunk(msg, k) == \E head \in MessageHeads : msg = head \o ToString(k)

NamesFinal(msg) == msg = "Failed to parse final summary JSON"

FailsFrom(r, stages) ==
    /\ pc[r] \in stages
    /\ pc'[r] = "done"
    /\ ~Unwrap(result'[r]).ok

\* C32: the error of a run that fails while processing chunk k names k, and
\* the error of a run that fails in the merge or the final synthesis names
\* that stage.
C32_ErrorsIdentifyStage ==
    [][\A r \in Requests :
         /\ FailsFrom(r, ChunkStages) => NamesChunk(Unwrap(result'[r]).value, run[r].i + 1)
         /\ FailsFrom(r, FinalStages) => NamesFinal(Unwrap(result'[r]).value)]_vars

(***************************************************************************)
(* The segmenter on texts of one-byte characters with two kinds of         *)
(* sentence terminator.                                                    *)
(***************************************************************************)
SentenceAlphabet == {"a", ".", "?", " "}

InitSentences ==
    /\ InitOrch
    /\ InitCfgIdle
    /\ InitTrIdle
    /\ InitFoldIdle
    /\ seg_pc = "start"
    /\ seg_text \in SeqsUpTo(SentenceAlphabet, MaxTextLen)
    /\ seg_max_chars \in 1..MaxChars
    /\ seg_current_pos = 0
    /\ seg_chunks = <<>>
    /\ seg_windows = <<>>

SpecSentences == InitSentences /\ [][NextSegment]_vars

\* C33: in a window that does not reach the end of the text and holds a
\* sentence separator of any of the four kinds, the break follows the
\* terminator of the right-most separator, whichever kind it is.
C33_BreakAtLatestSeparator ==
    \A n \in 1..Len(seg_windows) :
        LET w == seg_windows[n]
            sentences == SentenceSeparatorsIn(seg_text, w)
        IN  (w.end_pos < Len(seg_text) /\ sentences # {})
            => w.break_pos = Latest(sentences)

(***************************************************************************)
(* C34: characters and bytes in the segmenter.                             *)
(***************************************************************************)
\* The text with every multi-byte character replaced by a letter of one
\* byte: the same separators at the same character positions.
AsciiImage(chars) ==
    [i \in 1..Len(chars) |-> IF Utf8Len(chars[i]) > 1 THEN "a" ELSE chars[i]]

\* The break offsets of the loop's iterations from current_pos on.
RECURSIVE BreaksFrom(_, _, _)
BreaksFrom(chars, max_chars, current_pos) ==
    IF current_pos >= Len(chars) THEN <<>>
    ELSE LET end_pos == EndPos(current_pos, max_chars, Len(chars))
             break_pos == IF end_pos < Len(chars)
                          THEN FindOptimalBreakPoint(chars, current_pos, end_pos)
                          ELSE end_pos
         IN  <<break_pos>> \o BreaksFrom(chars, max_chars, break_pos)

\* C34: the windows of a text with multi-byte characters break at the same
\* character offsets as the windows of its one-byte image, and every chunk
\* is a whole number of the text's characters.
C34_BreaksCountCharacters ==
    seg_pc = "done" /\ Len(seg_text) > seg_max_chars =>
        LET breaks == BreaksFrom(AsciiImage(seg_text), seg_max_chars, 0)
        IN  /\ Len(seg_windows) = Len(breaks)
            /\ \A n \in 1..Len(breaks) : seg_windows[n].break_pos = breaks[n]
            /\ \A n \in 1..Len(seg_chunks) :
                 \A i \in 1..Len(seg_chunks[n]) :
                    \E j \in 1..Len(seg_text) : seg_chunks[n][i] = seg_text[j]

(***************************************************************************)
(* C35: the scan loop ends.                                                *)
(***************************************************************************)
CursorAdvances ==
    /\ \A n \in 1..Len(seg_windows) :
         /\ seg_windows[n].start < seg_windows[n].break_pos
         /\ seg_windows[n].break_pos <= Len(seg_text)
    /\ seg_pc = "loop" =>
         /\ seg_current_pos < Len(seg_text)
         /\ Len(seg_windows) <= seg_current_pos

\* C35 as stated: every iteration moves the cursor strictly forward, the
\* loop goes on until the text's end, and at most len(T) chunks come back.
C35_AtMostLenChunks ==
    /\ CursorAdvances
    /\ Len(seg_chunks) <= Len(seg_text)

\* C35, amended: every iteration moves the cursor strictly forward, the loop
\* goes on until the text's end, and at most len(T) chunks come back, or one
\* chunk for the empty text.
C35_CursorAdvancesLoopEnds ==
    /\ CursorAdvances
    /\ Len(seg_chunks) <= (IF Len(seg_text) = 0 THEN 1 ELSE Len(seg_text))

\* C35 witness: a text has been split to its end and one window, several
\* characters wide, was cut after its first character.
C35_Witness ==
    /\ seg_pc = "done"
    /\ \E n \in 1..Len(seg_windows) :
         /\ seg_windows[n].end_pos > seg_windows[n].start + 1
         /\ seg_windows[n].break_pos = seg_windows[n].start + 1

(***************************************************************************)
(* C36: the running KeyFacts and the merged KeyFacts.                      *)
(***************************************************************************)
\* C36: once every chunk summary of the list has been folded into the
\* running KeyFacts and the list has been merged, the running KeyFacts
\* equal the key_facts of the merged summary.
C36_AccumulationsAgree ==
    (folded = Len(in_summaries) /\ IsSome(merged))
    => acc_key_facts = Unwrap(merged).key_facts

(***************************************************************************)
(* transcribe (whisperx.rs 383-478) beside one run of the pipeline.        *)
(***************************************************************************)
\* The transcribe command as a holder of the mutex.
Transcriber == 0

\* Lines 389-437: after the installation check the command takes the mutex
\* and tests and sets the marker; the guard `state` lives on to line 470, so
\* the mutex stays taken when the whisperx process has been spawned, and is
\* dropped where the command returns early.
TranscribeCheckAndSet ==
    /\ tr_pc # "running"
    /\ MutexFree
    /\ \E meeting_id \in Meetings, installed \in BOOLEAN, spawned \in BOOLEAN :
         IF ~installed \/ IsSome(currently_transcribing)
         THEN /\ tr_pc' = "done"
              /\ UNCHANGED <<lock, currently_transcribing>>
         ELSE /\ currently_transcribing' = Some(meeting_id)
              /\ IF spawned
                 THEN lock' = Some(Transcriber) /\ tr_pc' = "running"
                 ELSE tr_pc' = "done" /\ UNCHANGED lock
    /\ UNCHANGED <<currently_summarizing, pc, req, result, run, log, files,
                   foldVars, segVars, cfgVars>>

\* Lines 438-477: the output of the process has been read and the process
\* waited for; the marker is cleared unless a read or the wait failed, and
\* the guard is dropped with the return.
TranscribeExit ==
    /\ tr_pc = "running"
    /\ \E waited \in BOOLEAN :
         currently_transcribing' = IF waited THEN None ELSE currently_transcribing
    /\ lock' = None
    /\ tr_pc' = "done"
    /\ UNCHANGED <<currently_summarizing, pc, req, result, run, log, files,
                   foldVars, segVars, cfgVars>>

NextTranscribing == NextRun \/ TranscribeCheckAndSet \/ TranscribeExit

SpecTranscribing == Init /\ [][NextTranscribing]_vars

(***************************************************************************)
(* C37: how long the mutex is held.                                        *)
(***************************************************************************)
\* Where a summarization run is inside a model call or a file operation.
WorkStages ==
    {"fetch", "read_chunks", "chunk_call", "save_chunk", "save_chunk_summary",
     "save_all", "final_call", "save_md", "save_json", "save_meta"}

\* C37: nobody holds the mutex while a summarization run is in a model call
\* or a file operation or while the whisperx process of a transcription
\* runs, and a request waiting for the mutex to make its busy check can
\* take it.
C37_MutexHeldOnlyBriefly ==
    /\ \A r \in Requests : pc[r] \in WorkStages => lock # Some(r)
    /\ tr_pc = "running" => lock = None
    /\ \A r \in Requests : pc[r] = "lock" => ENABLED CheckAndSetTest(r)

(***************************************************************************)
(* C38: a run and a concurrent set_llm_config.                             *)
(***************************************************************************)
ConfigReads(r) == Positions(r, "read", "llm_config")

\* C38: a run reads the shared configuration at most once, before its first
\* call; every chunk call and the final call go to the endpoint and model of
\* that one reading, whatever set_llm_config has stored since; and a
\* set_llm_config step changes neither the busy marker nor any run.
C38_ConfigReadOncePerRun ==
    /\ [](\A r \in Requests :
            /\ Cardinality(ConfigReads(r)) <= 1
            /\ \A i \in 1..Len(log[r]) :
                 IsCall(log[r][i]) =>
                    \E j \in ConfigReads(r) :
                       /\ j < i
                       /\ log[r][i].data.base_url = log[r][j].data.external_endpoint
                       /\ log[r][i].data.model = log[r][j].data.external_model)
    /\ [][llm_config' # llm_config =>
            /\ currently_summarizing' = currently_summarizing
            /\ run' = run /\ pc' = pc /\ log' = log /\ files' = files]_vars

\* C38 witness: the run read the default configuration, set_llm_config then
\* stored another endpoint, and the run's final call still went to the
\* default endpoint.
C38_Witness ==
    \E r \in Requests :
        /\ llm_config.external_endpoint # DefaultEndpoint
        /\ \E i \in Positions(r, "call", "final") :
             /\ log[r][i].data.base_url = DefaultEndpoint
             /\ \E j \in Positions(r, "call", "chunk") :
                  log[r][j].data.base_url = DefaultEndpoint

(***************************************************************************)
(* C39: the progress counter and the per-chunk progress indices.           *)
(***************************************************************************)
ProgressAt(r) == Positions(r, "emit", "summarization-chunk-progress")

\* The progress update under which the call at position c was issued: the
\* last one before it.
ProgressBefore(r, c) ==
    {p \in ProgressAt(r) :
        /\ p < c
        /\ \A q \in ProgressAt(r) : q < c => q <= p}

\* C39: in a chunked run over N chunks the step counter never exceeds
\* total_steps = N + 1; the progress indices come out as 0, 1, 2, ... with no
\* gap and no repetition and stay at most N; the call for chunk k is issued
\* under the update of index k - 1 and the final call under the update of
\* index N; and a run that succeeded emitted exactly N + 1 updates.
C39_ProgressIndicesInOrder ==
    \A r \in Requests :
        (req[r].command = "generate_summary" /\ run[r].total_steps > 0)
        => LET N == Len(run[r].chunks) IN
           /\ run[r].total_steps = N + 1
           /\ run[r].current_step <= run[r].total_steps
           /\ \A p \in ProgressAt(r) :
                /\ log[r][p].idx = Cardinality({q \in ProgressAt(r) : q < p})
                /\ log[r][p].idx <= N
           /\ \A c \in Positions(r, "call", "chunk") :
                /\ ProgressBefore(r, c) # {}
                /\ \A p \in ProgressBefore(r, c) :
                     /\ log[r][p].idx = log[r][c].idx - 1
                     /\ \A d \in 1..Len(log[r]) : (p < d /\ d < c) => ~IsCall(log[r][d])
           /\ \A c \in Positions(r, "call", "final") :
                /\ ProgressBefore(r, c) # {}
                /\ \A p \in ProgressBefore(r, c) :
                     /\ log[r][p].idx = N
                     /\ \A d \in 1..Len(log[r]) : (p < d /\ d < c) => ~IsCall(log[r][d])
           /\ (pc[r] = "done" /\ Unwrap(result[r]).ok)
                => Cardinality(ProgressAt(r)) = N + 1

\* C39 witness: a run over two chunks has succeeded, with the updates 0, 1
\* and 2 in its log.
C39_Witness ==
    \E r \in Requests :
        /\ req[r].command = "generate_summary"
        /\ Len(run[r].chunks) = 2
        /\ pc[r] = "done" /\ Unwrap(result[r]).ok
        /\ {log[r][p].idx : p \in ProgressAt(r)} = {0, 1, 2}

(***************************************************************************)
(* C40: regenerate_final_summary.                                          *)
(***************************************************************************)
Regenerates(r) == pc[r] # "idle" /\ req[r].command = "regenerate_final_summary"

\* The step is one of request r.
StepOf(r) == pc'[r] # pc[r] \/ log'[r] # log[r]

====
